---- MODULE Spec2Model ----
(***************************************************************************)
(* Model of the oqab file search engine: core::finder::FileFinder with its *)
(* WorkerPool, FilterRegistry, ObserverRegistry and TrackingObserver, the  *)
(* standard search of utils::standard_search and the WalkDir based finder  *)
(* of search::finder.                                                      *)
(*                                                                         *)
(* One behaviour is one call of a search entry point on a fixed directory  *)
(* tree, under a configuration chosen in Init.                             *)
(***************************************************************************)
EXTENDS Integers, Sequences, FiniteSets, TLC

VARIABLES
    cfg,        \* the configuration of the finder and the call's argument
    pc,         \* position of the calling thread inside the entry point
    result,     \* what the entry point returned (NoResult before it returns)
    pool,       \* whether a WorkerPool has been constructed by this call
    stopped,    \* WorkerPool.stopped (AtomicBool)
    dir_q,      \* messages in flight on the directory channel
    file_q,     \* messages in flight on the file channel
    workers,    \* WorkerPool.workers: join handles not yet joined
    wpc,        \* position of each worker thread in its loop
    wmsg,       \* the message a worker has received and not yet handled
    handled,    \* work items the workers passed to a consumer, in order
    notified,   \* calls made on the observers, in order
    obs,        \* state of each registered observer
    unit        \* one call of a function or command outside a search: its
                \* arguments and what it returned or printed

vars == <<cfg, pc, result, pool, stopped, dir_q, file_q, workers, wpc, wmsg,
          handled, notified, obs, unit>>

----------------------------------------------------------------------------
(* Bounds *)

\* largest num_threads explored
MaxThreads == 2
\* largest max_depth explored
MaxDepthCfg == 3
\* read_dir fails (too many open files) once this many directories are open
\* in one recursion chain
MaxOpenDirs == 5
\* most filters registered in one registry, most children of one composite
MaxFilters == 3
\* most calls of submit_directory, submit_file and complete a client makes
\* on one pool
MaxCalls == 2
\* the capacity the two channels are checked against
ChannelCapacity == 1
\* most TrackingObservers alive at once, clones included
MaxObservers == 3

----------------------------------------------------------------------------
(* Sequences helpers *)

Last(s) == s[Len(s)]
Front(s) == SubSeq(s, 1, Len(s) - 1)
Range(s) == {s[i] : i \in 1..Len(s)}
None == <<>>
Some(x) == <<x>>

----------------------------------------------------------------------------
(* The file system the search runs on.  A path is a sequence of            *)
(* components; the tree is keyed by canonical paths.                       *)

Root == <<"r">>
Root2 == <<"access denied">>
Missing == <<"nowhere">>
EmptyRoot == <<"empty">>
Dir(ch, rd) == [kind |-> "dir", children |-> ch, readable |-> rd,
                abs |-> FALSE, target |-> <<>>]
File == [kind |-> "file", children |-> <<>>, readable |-> TRUE,
         abs |-> FALSE, target |-> <<>>]
Link(a, t) == [kind |-> "symlink", children |-> <<>>, readable |-> TRUE,
               abs |-> a, target |-> t]

FS ==
    (<<"r">> :> Dir(<<"a.rs", "b.txt", ".h.rs", "sub", "locked", ".git",
                      "LICENSE">>, TRUE))
 @@ (<<"r", "LICENSE">> :> File)
 @@ (<<"r", "a.rs">> :> File)
 @@ (<<"r", "b.txt">> :> File)
 @@ (<<"r", ".h.rs">> :> File)
 @@ (<<"r", "sub">> :> Dir(<<"la", "c.rs", "deep">>, TRUE))
 @@ (<<"r", "sub", "la">> :> Link(TRUE, <<"r", "a.rs">>))
 @@ (<<"r", "sub", "c.rs">> :> File)
 @@ (<<"r", "sub", "deep">> :> Dir(<<"e.rs", "up">>, TRUE))
 @@ (<<"r", "sub", "deep", "e.rs">> :> File)
 @@ (<<"r", "sub", "deep", "up">> :> Link(FALSE, <<"..">>))
 @@ (<<"r", "locked">> :> Dir(<<"x.rs">>, FALSE))
 @@ (<<"r", "locked", "x.rs">> :> File)
 @@ (<<"r", ".git">> :> Dir(<<"g.rs">>, TRUE))
 @@ (<<"r", ".git", "g.rs">> :> File)
 @@ (<<"access denied">> :> Dir(<<"k.rs", "locked">>, TRUE))
 @@ (<<"access denied", "k.rs">> :> File)
 @@ (<<"access denied", "locked">> :> Dir(<<>>, FALSE))
 @@ (<<"empty">> :> Dir(<<>>, TRUE))

\* Path::extension of the last component
ExtensionOf ==
    [n \in {"a.rs", "b.txt", ".h.rs", "sub", "la", "c.rs", "deep", "e.rs",
            "up", "locked", "x.rs", ".git", "g.rs", "r", "..", "nowhere",
            "k.rs", "access denied", "LICENSE", "empty"} |->
        IF n \in {"a.rs", ".h.rs", "c.rs", "e.rs", "x.rs", "g.rs", "k.rs"}
        THEN Some("rs")
        ELSE IF n = "b.txt" THEN Some("txt")
        ELSE None]

\* names whose first character is '.'
DotNames == {".h.rs", ".git", ".."}

\* resolution of ".." components by the operating system
RECURSIVE Canon(_)
Canon(p) ==
    IF p = <<>> THEN <<>>
    ELSE LET c == Canon(Front(p)) IN
         IF Last(p) = ".." THEN (IF c = <<>> THEN <<>> ELSE Front(c))
         ELSE Append(c, Last(p))

Exists(p) == Canon(p) \in DOMAIN FS
\* std::fs::metadata / Path::is_dir / Path::is_file follow symbolic links;
\* the tree has no symbolic link to a symbolic link
RECURSIVE RealPath(_)
RealPath(p) ==
    LET n == FS[Canon(p)] IN
    IF n.kind = "symlink"
    THEN RealPath(IF n.abs THEN n.target ELSE Front(Canon(p)) \o n.target)
    ELSE Canon(p)
Stat(p) == FS[RealPath(p)]
IsDir(p) == Exists(p) /\ Stat(p).kind = "dir"
IsFile(p) == Exists(p) /\ Stat(p).kind = "file"
\* DirEntry::file_type does not follow symbolic links
FileType(p) == FS[Canon(p)].kind
\* std::fs::read_dir fails on what is not a directory, on a directory the
\* process may not read, and when the process has no file descriptor left
\* (every level of a recursion keeps its ReadDir open)
read_dir_fails(p, open) ==
    ~IsDir(p) \/ ~Stat(p).readable \/ open >= MaxOpenDirs

----------------------------------------------------------------------------
(* Result<Vec<PathBuf>> of the entry points *)

NoResult == [ok |-> FALSE, err |-> "pending", files |-> <<>>]
Ok(files) == [ok |-> TRUE, err |-> "", files |-> files]
Err(e) == [ok |-> FALSE, err |-> e, files |-> <<>>]

----------------------------------------------------------------------------
(* filters *)

Accept == "Accept"
Reject == "Reject"
Prune == "Prune"

\* the extension and the name the registered filters were built with
FilterExt == "rs"
FilterName == "a.rs"

\* ExtensionFilter::new: leading dots are trimmed from the extension
ExtensionFilterNew(extension) ==
    IF extension = ".rs" THEN "rs" ELSE extension

\* ExtensionFilter::filter of a filter built with the given extension
ExtensionFilterOf(extension, path) ==
    IF IsDir(path) THEN Accept
    ELSE IF ExtensionOf[Last(path)] # None
         THEN (IF ExtensionOf[Last(path)] = Some(extension) \/ extension = "*"
               THEN Accept ELSE Reject)
         ELSE (IF extension = "" THEN Accept ELSE Reject)

ExtensionFilter(path) == ExtensionFilterOf(ExtensionFilterNew(FilterExt), path)

NameFilter(path) ==
    IF IsDir(path) THEN Accept
    ELSE IF Last(path) # ".."
         THEN (IF Last(path) = FilterName \/ FilterName = "*"
               THEN Accept ELSE Reject)
         ELSE Reject

\* a Filter implementation supplied by the user of the library: it prunes
\* the directories of one name and accepts everything else
PrunedName == "sub"
PruneFilter(path) ==
    IF IsDir(path) /\ Last(path) = PrunedName THEN Prune ELSE Accept

\* Filter::filter of the filter registered under a name; "accepts",
\* "rejects" and "prunes" are implementations with a fixed result
Filter(name, path) ==
    IF name = "extension" THEN ExtensionFilter(path)
    ELSE IF name = "name" THEN NameFilter(path)
    ELSE IF name = "prune" THEN PruneFilter(path)
    ELSE IF name = "rejects" THEN Reject
    ELSE IF name = "prunes" THEN Prune
    ELSE Accept

\* FilterRegistry::apply_all over the registry's iteration order
RECURSIVE ApplyAllFrom(_, _)
\* a loop that returns the result of the first filter whatever it is
ApplyAllFrom_first_only(fs, path) ==
    IF fs = <<>> THEN Accept ELSE Filter(Head(fs), path)

ApplyAllFrom(fs, path) ==
    IF fs = <<>> THEN Accept
    ELSE LET r == Filter(Head(fs), path) IN
         IF r # Accept THEN r ELSE ApplyAllFrom(Tail(fs), path)

apply_all(c, path) == ApplyAllFrom(c.filters, path)

\* HashMap::values of the registry: the filters in the iteration order of
\* the map, which is any order of the registered entries
HashMapValues(registered) ==
    {[i \in DOMAIN registered |-> registered[p[i]]] :
        p \in Permutations(DOMAIN registered)}

\* filters::composite::CompositeFilter::filter over its children
RECURSIVE CompositeAnd(_, _)
CompositeAnd(children, path) ==
    IF children = <<>> THEN Accept
    ELSE LET r == Filter(Head(children), path) IN
         IF r = Accept THEN CompositeAnd(Tail(children), path) ELSE r

RECURSIVE CompositeOr(_, _, _)
CompositeOr(children, path, found_prune) ==
    IF children = <<>> THEN (IF found_prune THEN Prune ELSE Reject)
    ELSE LET r == Filter(Head(children), path) IN
         IF r = Accept THEN Accept
         ELSE CompositeOr(Tail(children), path, found_prune \/ r = Prune)

\* an Or that stops at the first child that does not reject
CompositeFilter_or_first(operation, children, path) ==
    IF children = <<>> THEN Accept ELSE CompositeAnd(children, path)

CompositeFilter(operation, children, path) ==
    IF children = <<>> THEN Accept
    ELSE IF operation = "And" THEN CompositeAnd(children, path)
    ELSE CompositeOr(children, path, FALSE)

----------------------------------------------------------------------------
(* traversal strategy *)

is_hidden(path) == Last(path) # ".." /\ Last(path) \in DotNames

should_process_directory(c, path) ==
    IF c.ignore_hidden THEN ~is_hidden(path) ELSE TRUE

should_process_file(c, path) ==
    IF c.ignore_hidden THEN ~is_hidden(path) ELSE TRUE

----------------------------------------------------------------------------
(* observers *)

DirEv(p) == [k |-> "dir", p |-> p]
FileEv(p) == [k |-> "file", p |-> p]

NewObserver == [files_count |-> 0, dirs_count |-> 0, found_files |-> <<>>]

\* a tracking observer whose file_found counts the file and does not store
\* its path
Observe_count_only(kind, o, ev) ==
    IF kind = "Null" THEN o
    ELSE IF ev.k = "file" THEN [o EXCEPT !.files_count = @ + 1]
    ELSE [o EXCEPT !.dirs_count = @ + 1]

\* SearchObserver::file_found / directory_processed of one observer:
\* NullObserver does nothing, SilentObserver counts, TrackingObserver counts
\* and stores the path; "Poisoned" is a TrackingObserver whose found_files
\* mutex is poisoned: its file_found counts, logs a warning and stores
\* nothing
Observe(kind, o, ev) ==
    IF kind = "Null" THEN o
    ELSE IF ev.k = "file"
         THEN IF kind \in {"Silent", "Poisoned"}
              THEN [o EXCEPT !.files_count = @ + 1]
              ELSE [o EXCEPT !.files_count = @ + 1,
                             !.found_files = Append(@, ev.p)]
         ELSE [o EXCEPT !.dirs_count = @ + 1]

\* one observer after the first n of the notifications evs
RECURSIVE ObserveAll(_, _, _, _)
ObserveAll(kind, o, evs, n) ==
    IF n = 0 THEN o
    ELSE Observe(kind, ObserveAll(kind, o, evs, n - 1), evs[n])

\* ObserverRegistry::notify_file_found / notify_directory_processed, called
\* for each of the notifications evs in turn: every registered observer is
\* invoked for each of them
NotifyAll(c, os, evs) ==
    [i \in DOMAIN os |-> ObserveAll(c.observers[i], os[i], evs, Len(evs))]

RECURSIVE notify_stops_on_failure(_, _, _, _, _)
RECURSIVE notify(_, _, _, _, _)

\* a loop that returns at the first observer that fails
notify_stops_on_failure(kinds, os, ev, i, log) ==
    IF i > Len(kinds) \/ kinds[i] = "Poisoned"
    THEN [log |-> log, obs |-> os]
    ELSE notify_stops_on_failure(kinds,
             [os EXCEPT ![i] = Observe(kinds[i], os[i], ev)], ev, i + 1,
             Append(log, i))

\* ObserverRegistry::notify_file_found / notify_directory_processed, one
\* call: the loop over the vector of observers from position i on; log
\* lists the positions of the observers invoked so far, in order
notify(kinds, os, ev, i, log) ==
    IF i > Len(kinds)
    THEN [log |-> log, obs |-> os]
    ELSE notify(kinds, [os EXCEPT ![i] = Observe(kinds[i], os[i], ev)], ev,
                i + 1, Append(log, i))

\* ObserverRegistry::get_observer_of_type::<TrackingObserver>
TrackingIndexes(c) == {i \in DOMAIN c.observers : c.observers[i] = "Tracking"}
find_tracking_observer(c) ==
    IF TrackingIndexes(c) = {} THEN 0
    ELSE CHOOSE i \in TrackingIndexes(c) : \A j \in TrackingIndexes(c) : i <= j

----------------------------------------------------------------------------
(* core::finder::process_directory: the notifications it issues, in order, *)
(* and whether it returned an error                                        *)

\* a branch that follows a symbolic link whatever the configuration says
follows_symlink_always(c, ft) == ft = "symlink"

\* the branch that follows a symbolic link
follows_symlink(c, ft) == ft = "symlink" /\ c.follow_links

RECURSIVE process_directory(_, _, _)
RECURSIVE process_entries(_, _, _, _)

process_directory(c, dir_path, depth) ==
    IF c.max_depth # None /\ depth >= c.max_depth[1]
    THEN [ev |-> <<>>, err |-> FALSE]
    ELSE IF ~should_process_directory(c, dir_path)
    THEN [ev |-> <<>>, err |-> FALSE]
    ELSE IF read_dir_fails(dir_path, depth)
    THEN [ev |-> <<DirEv(dir_path)>>, err |-> TRUE]
    ELSE [ev |-> <<DirEv(dir_path)>> \o
                 process_entries(c, dir_path, Stat(dir_path).children, depth),
          err |-> FALSE]

process_entries(c, dir_path, names, depth) ==
    IF names = <<>> THEN <<>>
    ELSE
      LET path == Append(dir_path, Head(names))
          ft == FileType(path)
          node == FS[Canon(path)]
          target_path == IF node.abs THEN node.target
                         ELSE dir_path \o node.target
          here ==
            IF ft = "dir"
            THEN process_directory(c, path, depth + 1).ev
            ELSE IF ft = "file" /\ should_process_file(c, path)
            THEN (IF apply_all(c, path) = Accept THEN <<FileEv(path)>> ELSE <<>>)
            ELSE IF follows_symlink(c, ft)
            THEN (IF ~Exists(target_path) THEN <<>>
                  ELSE IF Stat(target_path).kind = "dir"
                  THEN process_directory(c, target_path, depth + 1).ev
                  ELSE IF Stat(target_path).kind = "file"
                          /\ should_process_file(c, target_path)
                  THEN (IF apply_all(c, target_path) = Accept
                        THEN <<FileEv(target_path)>> ELSE <<>>)
                  ELSE <<>>)
            ELSE <<>>
      IN here \o process_entries(c, dir_path, Tail(names), depth)

----------------------------------------------------------------------------
(* core::finder::FileFinder::collect_files_direct *)

RECURSIVE collect_files_direct(_, _, _, _)
RECURSIVE collect_entries(_, _, _, _, _)

collect_files_direct(c, dir, max_depth, current_depth) ==
    IF (max_depth # None /\ current_depth >= max_depth[1])
       \/ ~should_process_directory(c, dir)
    THEN <<>>
    ELSE IF read_dir_fails(dir, current_depth)
    THEN <<>>
    ELSE collect_entries(c, dir, Stat(dir).children, max_depth, current_depth)

collect_entries(c, dir, names, max_depth, current_depth) ==
    IF names = <<>> THEN <<>>
    ELSE
      LET path == Append(dir, Head(names))
          ft == FileType(path)
          here ==
            IF ft = "dir"
            THEN collect_files_direct(c, path, max_depth, current_depth + 1)
            ELSE IF ft = "file" /\ should_process_file(c, path)
                    /\ apply_all(c, path) = Accept
            THEN <<path>>
            ELSE <<>>
      IN here \o collect_entries(c, dir, Tail(names), max_depth, current_depth)

----------------------------------------------------------------------------
(* utils::standard_search *)

\* file names that contain the pattern of the name criterion, lower-cased
NamePattern == "c"
NamesContainingPattern == {"c.rs", "access denied", "LICENSE"}
\* metadata.len() of the regular files
SizeOf(path) == IF Last(path) = "a.rs" THEN 1 ELSE 3

match_file(c, file_path) ==
    IF c.file_extension # None
       /\ (ExtensionOf[Last(file_path)] = None
           \/ ExtensionOf[Last(file_path)] # c.file_extension)
    THEN FALSE
    ELSE IF c.file_name # None /\ Last(file_path) \notin NamesContainingPattern
    THEN FALSE
    ELSE IF c.min_size # None /\ SizeOf(file_path) < c.min_size[1]
    THEN FALSE
    ELSE IF c.max_size # None /\ SizeOf(file_path) > c.max_size[1]
    THEN FALSE
    ELSE TRUE

(* filters::size::SizeFilter *)

\* std::fs::metadata(path).len(): the size of the file the path leads to,
\* and for a directory the length the file system reports for it (dir_len)
metadata_len(path, dir_len) ==
    IF IsDir(path) THEN dir_len ELSE SizeOf(path)

\* SizeFilter::filter
SizeFilter(min_size, max_size, path, dir_len) ==
    IF ~Exists(path) THEN Reject
    ELSE IF min_size # None /\ metadata_len(path, dir_len) < min_size[1]
    THEN Reject
    ELSE IF max_size # None /\ metadata_len(path, dir_len) > max_size[1]
    THEN Reject
    ELSE Accept

RECURSIVE walk_directory(_, _, _)
RECURSIVE walk_entries(_, _, _, _)

\* the notifications walk_directory issues; every file notification is also
\* a push onto the results
walk_directory(c, dir_path, open) ==
    IF read_dir_fails(dir_path, open)
    THEN <<DirEv(dir_path)>>
    ELSE <<DirEv(dir_path)>> \o
         walk_entries(c, dir_path, Stat(dir_path).children, open)

walk_entries(c, dir_path, names, open) ==
    IF names = <<>> THEN <<>>
    ELSE
      LET path == Append(dir_path, Head(names))
          ft == FileType(path)
          node == FS[Canon(path)]
          target_path == IF node.abs THEN node.target
                         ELSE dir_path \o node.target
          here ==
            IF ft = "dir" /\ c.recursive
            THEN walk_directory(c, path, open + 1)
            ELSE IF ft = "file"
            THEN (IF match_file(c, path) THEN <<FileEv(path)>> ELSE <<>>)
            ELSE IF ft = "symlink" /\ c.follow_symlinks
            THEN (IF ~Exists(target_path) THEN <<>>
                  ELSE IF Stat(target_path).kind = "dir" /\ c.recursive
                  THEN walk_directory(c, target_path, open + 1)
                  ELSE IF Stat(target_path).kind = "file"
                  THEN (IF match_file(c, target_path)
                        THEN <<FileEv(target_path)>> ELSE <<>>)
                  ELSE <<>>)
            ELSE <<>>
      IN here \o walk_entries(c, dir_path, Tail(names), open)

RECURSIVE FilePaths(_)
FilePaths(evs) ==
    IF evs = <<>> THEN <<>>
    ELSE IF Head(evs).k = "file" THEN <<Head(evs).p>> \o FilePaths(Tail(evs))
    ELSE FilePaths(Tail(evs))

----------------------------------------------------------------------------
(* cli::args::Args *)

\* Args::parse_size on the size strings of the model: digits with an
\* optional unit give a number of bytes, anything else is an error
parse_size(size_str) ==
    IF size_str = "2" THEN [ok |-> TRUE, size |-> 2]
    ELSE IF size_str = "1kb" THEN [ok |-> TRUE, size |-> 1024]
    ELSE [ok |-> FALSE, size |-> 0]

\* NaiveDate::parse_from_str(date_str, "%Y-%m-%d") succeeds
date_parses(date_str) == date_str = "2024-01-01"

\* Args::validate
validate(args) ==
    IF args.workers # None /\ args.workers[1] = 0 THEN Err("InvalidValue")
    ELSE IF args.path # None /\ ~Exists(args.path[1]) THEN Err("InvalidValue")
    ELSE Ok(<<>>)

\* Args::to_config: FileSearchConfig::new() with apply_to_config applied
to_config(args) ==
    [path |-> args.path,
     thread_count |-> args.workers,
     min_size |-> IF args.min_size # None /\ parse_size(args.min_size[1]).ok
                  THEN Some(parse_size(args.min_size[1]).size) ELSE None,
     max_size |-> IF args.max_size # None /\ parse_size(args.max_size[1]).ok
                  THEN Some(parse_size(args.max_size[1]).size) ELSE None,
     newer_than |-> args.newer_than,
     older_than |-> args.older_than,
     recursive |-> ~args.no_recursive]

\* Args::process without a configuration file: validate, to_config,
\* validate_config (which only warns)
process(args) ==
    IF ~validate(args).ok THEN [ok |-> FALSE, config |-> <<>>]
    ELSE [ok |-> TRUE, config |-> to_config(args)]

----------------------------------------------------------------------------
(* commands::grep::GrepCommand *)

\* the lines of a file the pattern matches: line number and text
MatchingLines(path) ==
    IF Last(path) = "a.rs"
    THEN <<[n |-> 1, text |-> "x"], [n |-> 3, text |-> "y"]>>
    ELSE IF Last(path) = "c.rs" THEN <<[n |-> 2, text |-> "z"]>>
    ELSE IF Last(path) = "e.rs" THEN <<[n |-> 1, text |-> "w"]>>
    ELSE <<>>

\* the file whose File::open outcome is part of the call's environment
GrepUnopenable == "c.rs"

\* GrepCommand::search_file: a file that cannot be opened for lack of
\* permission has no match, any other failure to open is an error
search_file(a, path) ==
    IF Last(path) = GrepUnopenable /\ a.open = "denied"
    THEN [ok |-> TRUE, matches |-> <<>>]
    ELSE IF Last(path) = GrepUnopenable /\ a.open = "error"
    THEN [ok |-> FALSE, matches |-> <<>>]
    ELSE [ok |-> TRUE, matches |-> MatchingLines(path)]

\* what println! writes
PathLine(path) == [t |-> "path", p |-> path, n |-> 0, text |-> ""]
HeaderLine(path) == [t |-> "header", p |-> path, n |-> 0, text |-> ""]
MatchLine(m, line_number) ==
    [t |-> "line", p |-> <<>>, n |-> IF line_number THEN m.n ELSE 0,
     text |-> m.text]
BlankLine == [t |-> "blank", p |-> <<>>, n |-> 0, text |-> ""]
SummaryLine(total_matches, files) ==
    [t |-> "summary", p |-> <<>>, n |-> total_matches, text |-> "",
     files |-> files]

MatchLines(ms, line_number) ==
    [i \in DOMAIN ms |-> MatchLine(ms[i], line_number)]

\* GrepCommand::process_files: the lines printed for the files from index
\* i on, after the lines printed so far
RECURSIVE process_files(_, _, _, _, _)
process_files(a, files, i, printed, total_matches) ==
    IF i > Len(files)
    THEN [ok |-> TRUE,
          lines |-> IF a.show_progress
                    THEN Append(printed, SummaryLine(total_matches, Len(files)))
                    ELSE printed]
    ELSE LET r == search_file(a, files[i]) IN
         IF ~r.ok THEN [ok |-> FALSE, lines |-> printed]
         ELSE IF r.matches = <<>>
         THEN process_files(a, files, i + 1, printed, total_matches)
         ELSE IF a.files_with_matches
         THEN process_files(a, files, i + 1,
                            Append(printed, PathLine(files[i])),
                            total_matches + Len(r.matches))
         ELSE process_files(a, files, i + 1,
                            printed \o <<HeaderLine(files[i])>>
                                \o MatchLines(r.matches, a.line_number)
                                \o <<BlankLine>>,
                            total_matches + Len(r.matches))

----------------------------------------------------------------------------
(* search::finder::FileFinder over WalkDir::new(..).follow_links(true) *)

Entry(p) == [ok |-> TRUE, p |-> p, loop |-> FALSE]
IoError(p) == [ok |-> FALSE, p |-> p, loop |-> FALSE]
LoopError(p) == [ok |-> FALSE, p |-> p, loop |-> TRUE]

RECURSIVE WalkDir(_, _)
RECURSIVE WalkDirEntries(_, _, _)

\* the items the iterator yields below (and including) path; ancestors are
\* the canonical directories on the way from the root of the walk
WalkDir(path, ancestors) ==
    IF ~IsDir(path) THEN <<Entry(path)>>
    ELSE IF FileType(path) = "symlink" /\ RealPath(path) \in ancestors
    THEN <<LoopError(path)>>
    ELSE IF ~Stat(path).readable THEN <<Entry(path), IoError(path)>>
    ELSE <<Entry(path)>> \o
         WalkDirEntries(path, Stat(path).children,
                        ancestors \cup {RealPath(path)})

WalkDirEntries(dir, names, ancestors) ==
    IF names = <<>> THEN <<>>
    ELSE WalkDir(Append(dir, Head(names)), ancestors)
         \o WalkDirEntries(dir, Tail(names), ancestors)

\* err.to_string().contains("permission denied") || .contains("access denied")
\* on "IO error for operation on <path>: Permission denied (os error 13)"
NeedleNames == {"access denied"}
is_permission_error(e) ==
    ~e.loop /\ \E i \in 1..Len(e.p) : e.p[i] \in NeedleNames

\* FileFilter::matches of the extension filter of search::finder
matches(c, path) == ExtensionOf[Last(path)] = Some(FilterExt)

\* the loop of find over the items of the walker
RECURSIVE FindLoop(_, _, _)
FindLoop(c, items, results) ==
    IF items = <<>> THEN Ok(results)
    ELSE LET e == Head(items) IN
         IF e.ok
         THEN FindLoop(c, Tail(items),
                       IF IsFile(e.p) /\ matches(c, e.p)
                       THEN Append(results, e.p) ELSE results)
         ELSE IF is_permission_error(e) THEN Err("AccessError")
         ELSE FindLoop(c, Tail(items), results)

----------------------------------------------------------------------------
(* messages of the worker pool *)

Directory(p) == [k |-> "Directory", p |-> p]
FileMsg(p) == [k |-> "File", p |-> p]
Done == [k |-> "Done", p |-> <<>>]
NoMsg == [k |-> "None", p |-> <<>>]

Workers == DOMAIN wpc

----------------------------------------------------------------------------
(* configurations *)

CoreConfigs ==
    [engine : {"core"},
     root : {Root, Missing, <<"r", "a.rs">>, EmptyRoot, <<"r", "sub">>},
     num_threads : 0..MaxThreads,
     follow_links : BOOLEAN,
     max_depth : {None} \cup {Some(d) : d \in 0..MaxDepthCfg},
     observers : {<<"Null">>, <<"Null", "Tracking">>},
     filters : {<<>>, <<"extension">>, <<"extension", "name">>,
                <<"name", "extension">>, <<"prune">>},
     ignore_hidden : BOOLEAN]

StandardConfigs ==
    [engine : {"standard"},
     root : {Root, Missing, <<"r", "a.rs">>, EmptyRoot},
     recursive : BOOLEAN,
     follow_symlinks : BOOLEAN,
     file_extension : {None, Some("rs")},
     file_name : {None, Some(NamePattern)},
     min_size : {None},
     max_size : {None},
     observers : {<<"Tracking">>}]

WalkDirConfigs ==
    [engine : {"walkdir"},
     root : {Root, Root2, Missing, <<"r", "a.rs">>},
     observers : {<<>>}]

\* commands::search::SearchCommand over a FileSearchConfig.  The record
\* holds the FileSearchConfig and, for the advanced search, the FileFinder
\* that create_app_config and FinderFactory::create_standard_finder build
\* from it: threads from thread_count, follow_links from follow_symlinks,
\* no depth limit, DefaultTraversalStrategy::new(true), one filter per
\* criterion and the NullObserver alone.  The standard search gets a
\* TrackingObserver if show_progress is set and a SilentObserver otherwise.
CommandConfig(fsc) ==
    [engine |-> "command",
     root |-> fsc.path,
     recursive |-> fsc.recursive,
     follow_symlinks |-> fsc.follow_symlinks,
     file_extension |-> fsc.file_extension,
     file_name |-> None,
     min_size |-> None,
     max_size |-> None,
     advanced_search |-> fsc.advanced_search,
     show_progress |-> fsc.show_progress,
     num_threads |-> fsc.thread_count[1],
     follow_links |-> fsc.follow_symlinks,
     max_depth |-> None,
     ignore_hidden |-> TRUE,
     filters |-> IF fsc.file_extension # None THEN <<"extension">> ELSE <<>>,
     observers |-> IF fsc.advanced_search THEN <<"Null">>
                   ELSE IF fsc.show_progress THEN <<"Tracking">>
                   ELSE <<"Silent">>]

CommandConfigs ==
    {CommandConfig(fsc) : fsc \in
        [path : {Root},
         recursive : BOOLEAN,
         follow_symlinks : {FALSE},
         file_extension : {None, Some(FilterExt)},
         advanced_search : BOOLEAN,
         show_progress : BOOLEAN,
         thread_count : {Some(1), Some(MaxThreads)}]}

\* a WorkerPool built with the consumers of FileFinder and used on its own,
\* and the directory and the file its client submits
PoolConfigs ==
    {c \in CoreConfigs :
        /\ c.root = Root /\ c.num_threads >= 1
        /\ ~c.follow_links /\ c.max_depth = None
        /\ c.observers = <<"Null">>
        /\ c.filters = <<"extension">>
        /\ c.ignore_hidden}

SubmittedDir == <<"r", "sub", "deep">>
SubmittedFile == <<"r", "a.rs">>

\* the calls that run core::finder::FileFinder::find
UsesFinder ==
    cfg.engine = "core" \/ (cfg.engine = "command" /\ cfg.advanced_search)

\* no function or command call outside the search
NoUnit == [op |-> "none", arg |-> <<>>, out |-> <<>>, done |-> FALSE]

Init ==
    /\ cfg \in CoreConfigs \cup StandardConfigs \cup WalkDirConfigs
                \cup CommandConfigs
    /\ pc = "call"
    /\ result = NoResult
    /\ pool = FALSE
    /\ stopped = FALSE
    /\ dir_q = <<>>
    /\ file_q = <<>>
    /\ workers = <<>>
    /\ wpc = <<>>
    /\ wmsg = <<>>
    /\ handled = <<>>
    /\ notified = <<>>
    /\ obs = [i \in DOMAIN cfg.observers |-> NewObserver]
    /\ unit = NoUnit

----------------------------------------------------------------------------
(* core::finder::FileFinder::find, the calling thread *)

\* a validation without the is_dir check
root_is_valid_exists_only(root) == Exists(root)

\* the root is accepted by the two checks at the head of find
root_is_valid(root) == Exists(root) /\ IsDir(root)

FindValidate ==
    /\ pc = "call" /\ UsesFinder
    /\ IF ~root_is_valid(cfg.root)
       THEN pc' = "done" /\ result' = Err("InvalidPath")
       ELSE /\ pc' = IF cfg.num_threads <= 1 THEN "single" ELSE "new_pool"
            /\ UNCHANGED result
    /\ UNCHANGED <<unit, cfg, pool, stopped, dir_q, file_q, workers, wpc, wmsg,
                   handled, notified, obs>>

FindSingle ==
    /\ pc = "single"
    /\ \E r \in {process_directory(cfg, cfg.root, 0)} :
       /\ notified' = notified \o r.ev
       /\ obs' = NotifyAll(cfg, obs, r.ev)
    /\ pc' = "collect"
    /\ UNCHANGED <<unit, cfg, result, pool, stopped, dir_q, file_q, workers, wpc,
                   wmsg, handled>>

\* WorkerPool::new
PoolNew ==
    /\ pc = "new_pool"
    /\ pool' = TRUE
    /\ stopped' = FALSE
    /\ dir_q' = <<>> /\ file_q' = <<>>
    /\ workers' = [i \in 1..cfg.num_threads |-> i]
    /\ wpc' = [i \in 1..cfg.num_threads |-> "loop"]
    /\ wmsg' = [i \in 1..cfg.num_threads |-> NoMsg]
    /\ pc' = "submit"
    /\ UNCHANGED <<unit, cfg, result, handled, notified, obs>>

\* WorkerPool::submit_directory
SubmitDirectory ==
    /\ pc = "submit"
    /\ dir_q' = IF stopped THEN dir_q ELSE Append(dir_q, Directory(cfg.root))
    /\ pc' = "complete_d"
    /\ UNCHANGED <<unit, cfg, result, pool, stopped, file_q, workers, wpc, wmsg,
                   handled, notified, obs>>

\* the two receivers are owned by the worker threads: the channels are
\* disconnected once every worker thread has finished
Disconnected == Workers # {} /\ \A w \in Workers : wpc[w] = "exited"

\* Sender::send from the pool's handle: an error, and nothing queued, on a
\* disconnected channel
send(q, m) == IF Disconnected THEN q ELSE Append(q, m)

\* WorkerPool::complete, first send; complete is called by find, by join,
\* by Drop and by a client of the pool
CompleteDir ==
    /\ pc \in {"complete_d", "join_complete_d", "drop_complete_d",
              "client_complete_d"}
    /\ dir_q' = send(dir_q, Done)
    /\ pc' = CASE pc = "complete_d" -> "complete_f"
              [] pc = "join_complete_d" -> "join_complete_f"
              [] pc = "drop_complete_d" -> "drop_complete_f"
              [] OTHER -> "client_complete_f"
    /\ UNCHANGED <<unit, cfg, result, pool, stopped, file_q, workers, wpc, wmsg,
                   handled, notified, obs>>

\* WorkerPool::complete, second send
CompleteFile ==
    /\ pc \in {"complete_f", "join_complete_f", "drop_complete_f",
              "client_complete_f"}
    /\ file_q' = send(file_q, Done)
    /\ pc' = CASE pc = "complete_f" -> "join"
              [] pc = "join_complete_f" -> "join_wait"
              [] pc = "drop_complete_f" -> "drop_reap"
              [] OTHER -> "submit"
    /\ UNCHANGED <<unit, cfg, result, pool, stopped, dir_q, workers, wpc, wmsg,
                   handled, notified, obs>>

\* WorkerPool::join, the store to the stopped flag
JoinStop ==
    /\ pc = "join"
    /\ stopped' = TRUE
    /\ pc' = "join_complete_d"
    /\ UNCHANGED <<unit, cfg, result, pool, dir_q, file_q, workers, wpc, wmsg,
                   handled, notified, obs>>

\* a join that does not wait for the thread
thread_finished_no_wait(w) == TRUE

\* JoinHandle::join returns once the thread has finished
thread_finished(w) == wpc[w] = "exited"

\* WorkerPool::join, one iteration of the loop over the handles
JoinWait ==
    /\ pc = "join_wait"
    /\ workers # <<>>
    /\ thread_finished(Last(workers))
    /\ workers' = Front(workers)
    /\ UNCHANGED <<unit, cfg, pc, result, pool, stopped, dir_q, file_q, wpc, wmsg,
                   handled, notified, obs>>

\* the end of join: the pool is dropped; every receiver is gone with the
\* worker threads, so the two sends of Drop's complete() fail
JoinReturn ==
    /\ pc = "join_wait"
    /\ workers = <<>>
    /\ stopped' = TRUE
    /\ dir_q' = <<>> /\ file_q' = <<>>
    /\ pc' = "collect"
    /\ UNCHANGED <<unit, cfg, result, pool, workers, wpc, wmsg, handled, notified,
                   obs>>

\* the end of find: the results are read from the tracking observer, or
\* collected directly
FindCollect ==
    /\ pc = "collect" /\ UsesFinder
    /\ result' = IF find_tracking_observer(cfg) # 0
                 THEN Ok(obs[find_tracking_observer(cfg)].found_files)
                 ELSE Ok(collect_files_direct(cfg, cfg.root, cfg.max_depth, 0))
    /\ pc' = "done"
    /\ UNCHANGED <<unit, cfg, pool, stopped, dir_q, file_q, workers, wpc, wmsg,
                   handled, notified, obs>>

----------------------------------------------------------------------------
(* utils::standard_search::search_directory *)

SearchDirectory ==
    /\ pc = "call" /\ cfg.engine = "standard"
    /\ IF ~(Exists(cfg.root) /\ IsDir(cfg.root))
       THEN /\ result' = Err("anyhow")
            /\ UNCHANGED <<notified, obs>>
       ELSE \E evs \in {walk_directory(cfg, cfg.root, 0)} :
            /\ notified' = notified \o evs
            /\ obs' = NotifyAll(cfg, obs, evs)
            /\ result' = Ok(FilePaths(evs))
    /\ pc' = "done"
    /\ UNCHANGED <<unit, cfg, pool, stopped, dir_q, file_q, workers, wpc, wmsg,
                   handled>>

(* commands::search::SearchCommand::execute, the standard search: the     *)
(* FileSearchConfig handed to search_directory is rebuilt with recursive   *)
(* set to true; the result is the list display_results prints.  The        *)
(* advanced search is the call of FileFinder::find above.                  *)

SearchCommandExecute ==
    /\ pc = "call" /\ cfg.engine = "command" /\ ~cfg.advanced_search
    /\ LET search_config == [cfg EXCEPT !.recursive = TRUE] IN
       IF ~(Exists(cfg.root) /\ IsDir(cfg.root))
       THEN /\ result' = Err("anyhow")
            /\ UNCHANGED <<notified, obs>>
       ELSE \E evs \in {walk_directory(search_config, cfg.root, 0)} :
            /\ notified' = notified \o evs
            /\ obs' = NotifyAll(cfg, obs, evs)
            /\ result' = Ok(FilePaths(evs))
    /\ pc' = "done"
    /\ UNCHANGED <<unit, cfg, pool, stopped, dir_q, file_q, workers, wpc, wmsg,
                   handled>>

(* search::finder::FileFinder::find *)

WalkDirFind ==
    /\ pc = "call" /\ cfg.engine = "walkdir"
    /\ result' = IF ~Exists(cfg.root) THEN Err("InvalidPath")
                 ELSE FindLoop(cfg, WalkDir(cfg.root, {}), <<>>)
    /\ pc' = "done"
    /\ UNCHANGED <<unit, cfg, pool, stopped, dir_q, file_q, workers, wpc, wmsg,
                   handled, notified, obs>>

----------------------------------------------------------------------------
(* the loop of one worker thread, WorkerPool::new *)

\* while !stopped.load(..)
WorkerLoop(w) ==
    /\ w \in Workers
    /\ wpc[w] = "loop"
    /\ wpc' = [wpc EXCEPT ![w] = IF stopped THEN "exited" ELSE "recv_dir"]
    /\ UNCHANGED <<unit, cfg, pc, result, pool, stopped, dir_q, file_q, workers,
                   wmsg, handled, notified, obs>>

\* directory_rx.lock() and try_recv()
WorkerRecvDir(w) ==
    /\ w \in Workers
    /\ wpc[w] = "recv_dir"
    /\ IF dir_q = <<>>
       THEN /\ wpc' = [wpc EXCEPT ![w] = "recv_file"]
            /\ UNCHANGED <<dir_q, wmsg>>
       ELSE /\ wmsg' = [wmsg EXCEPT ![w] = Head(dir_q)]
            /\ dir_q' = Tail(dir_q)
            /\ wpc' = [wpc EXCEPT ![w] = "handle_dir"]
    /\ UNCHANGED <<unit, cfg, pc, result, pool, stopped, file_q, workers, handled,
                   notified, obs>>

\* process_directory on the root of the call, for every configuration of
\* FileFinder, tabulated once as an explicit function
RootResult ==
    [c \in CoreConfigs \cup {k \in CommandConfigs : k.advanced_search} |->
        process_directory(c, c.root, 0)] @@ <<>>

\* process_directory on the directory a client of the pool submits,
\* tabulated in the same way
SubmittedResult ==
    [c \in PoolConfigs |-> process_directory(c, SubmittedDir, 0)] @@ <<>>

\* the directory consumer find passes to the pool
directory_consumer(dir_path) ==
    IF dir_path = cfg.root THEN RootResult[cfg].ev
    ELSE IF dir_path = SubmittedDir /\ cfg \in PoolConfigs
    THEN SubmittedResult[cfg].ev
    ELSE process_directory(cfg, dir_path, 0).ev

\* the file consumer find passes to the pool
file_consumer(file_path) ==
    IF apply_all(cfg, file_path) = Accept THEN <<FileEv(file_path)>> ELSE <<>>

\* a worker that lets go of the message it holds when the pool is stopped
WorkerHandleDir_drops(w) ==
    /\ w \in Workers
    /\ wpc[w] = "handle_dir"
    /\ LET m == wmsg[w] IN
       /\ IF m.k = "Directory" /\ ~stopped
          THEN /\ handled' = Append(handled, m)
               /\ \E evs \in {directory_consumer(m.p)} :
                     /\ notified' = notified \o evs
                     /\ obs' = NotifyAll(cfg, obs, evs)
               /\ UNCHANGED <<dir_q, file_q>>
          ELSE IF m.k = "Done"
          THEN /\ dir_q' = Append(dir_q, Done)
               /\ UNCHANGED <<file_q, handled, notified, obs>>
          ELSE UNCHANGED <<dir_q, file_q, handled, notified, obs>>
       /\ wpc' = [wpc EXCEPT ![w] = IF m.k = "Done" THEN "exited"
                                    ELSE "recv_file"]
    /\ wmsg' = [wmsg EXCEPT ![w] = NoMsg]
    /\ UNCHANGED <<unit, cfg, pc, result, pool, stopped, workers>>

\* the match on the message received from the directory channel
WorkerHandleDir(w) ==
    /\ w \in Workers
    /\ wpc[w] = "handle_dir"
    /\ LET m == wmsg[w] IN
       /\ IF m.k = "Directory"
          THEN /\ handled' = Append(handled, m)
               /\ \E evs \in {directory_consumer(m.p)} :
                     /\ notified' = notified \o evs
                     /\ obs' = NotifyAll(cfg, obs, evs)
               /\ UNCHANGED <<dir_q, file_q>>
          ELSE IF m.k = "File"
          THEN /\ file_q' = Append(file_q, m)
               /\ UNCHANGED <<dir_q, handled, notified, obs>>
          ELSE /\ dir_q' = Append(dir_q, Done)
               /\ UNCHANGED <<file_q, handled, notified, obs>>
       /\ wpc' = [wpc EXCEPT ![w] = IF m.k = "Done" THEN "exited"
                                    ELSE "recv_file"]
    /\ wmsg' = [wmsg EXCEPT ![w] = NoMsg]
    /\ UNCHANGED <<unit, cfg, pc, result, pool, stopped, workers>>

\* file_rx.lock() and try_recv()
WorkerRecvFile(w) ==
    /\ w \in Workers
    /\ wpc[w] = "recv_file"
    /\ IF file_q = <<>>
       THEN /\ wpc' = [wpc EXCEPT ![w] = "loop"]
            /\ UNCHANGED <<file_q, wmsg>>
       ELSE /\ wmsg' = [wmsg EXCEPT ![w] = Head(file_q)]
            /\ file_q' = Tail(file_q)
            /\ wpc' = [wpc EXCEPT ![w] = "handle_file"]
    /\ UNCHANGED <<unit, cfg, pc, result, pool, stopped, dir_q, workers, handled,
                   notified, obs>>

\* a worker that leaves on Done without sending it on
WorkerHandleFile_no_forward(w) ==
    /\ w \in Workers
    /\ wpc[w] = "handle_file"
    /\ LET m == wmsg[w] IN
       /\ IF m.k = "File"
          THEN /\ handled' = Append(handled, m)
               /\ \E evs \in {file_consumer(m.p)} :
                     /\ notified' = notified \o evs
                     /\ obs' = NotifyAll(cfg, obs, evs)
               /\ UNCHANGED <<dir_q, file_q>>
          ELSE IF m.k = "Directory"
          THEN /\ dir_q' = Append(dir_q, m)
               /\ UNCHANGED <<file_q, handled, notified, obs>>
          ELSE UNCHANGED <<dir_q, file_q, handled, notified, obs>>
       /\ wpc' = [wpc EXCEPT ![w] = IF m.k = "Done" THEN "exited" ELSE "loop"]
    /\ wmsg' = [wmsg EXCEPT ![w] = NoMsg]
    /\ UNCHANGED <<unit, cfg, pc, result, pool, stopped, workers>>

\* the match on the message received from the file channel
WorkerHandleFile(w) ==
    /\ w \in Workers
    /\ wpc[w] = "handle_file"
    /\ LET m == wmsg[w] IN
       /\ IF m.k = "File"
          THEN /\ handled' = Append(handled, m)
               /\ \E evs \in {file_consumer(m.p)} :
                     /\ notified' = notified \o evs
                     /\ obs' = NotifyAll(cfg, obs, evs)
               /\ UNCHANGED <<dir_q, file_q>>
          ELSE IF m.k = "Directory"
          THEN /\ dir_q' = Append(dir_q, m)
               /\ UNCHANGED <<file_q, handled, notified, obs>>
          ELSE /\ file_q' = Append(file_q, Done)
               /\ UNCHANGED <<dir_q, handled, notified, obs>>
       /\ wpc' = [wpc EXCEPT ![w] = IF m.k = "Done" THEN "exited" ELSE "loop"]
    /\ wmsg' = [wmsg EXCEPT ![w] = NoMsg]
    /\ UNCHANGED <<unit, cfg, pc, result, pool, stopped, workers>>

WorkerStep(w) ==
    \/ WorkerLoop(w)
    \/ WorkerRecvDir(w)
    \/ WorkerHandleDir(w)
    \/ WorkerRecvFile(w)
    \/ WorkerHandleFile(w)

----------------------------------------------------------------------------

Next ==
    \/ FindValidate
    \/ FindSingle
    \/ PoolNew
    \/ SubmitDirectory
    \/ CompleteDir
    \/ CompleteFile
    \/ JoinStop
    \/ JoinWait
    \/ JoinReturn
    \/ FindCollect
    \/ SearchDirectory
    \/ SearchCommandExecute
    \/ WalkDirFind
    \/ \E w \in 1..MaxThreads : WorkerLoop(w)
    \/ \E w \in 1..MaxThreads : WorkerRecvDir(w)
    \/ \E w \in 1..MaxThreads : WorkerHandleDir(w)
    \/ \E w \in 1..MaxThreads : WorkerRecvFile(w)
    \/ \E w \in 1..MaxThreads : WorkerHandleFile(w)

Spec == Init /\ [][Next]_vars

----------------------------------------------------------------------------
(* FileFinder::find in parallel mode only: the calls with a valid root and *)
(* at least two threads                                                    *)

ParallelConfigs ==
    {c \in CoreConfigs :
        /\ c.root = Root /\ c.num_threads >= 2
        /\ c.max_depth \in {None, Some(0)}
        /\ c.observers = <<"Null", "Tracking">>
        /\ c.filters = <<"extension">>
        /\ c.ignore_hidden}

ParallelInit == Init /\ cfg \in ParallelConfigs

ParallelCaller ==
    \/ FindValidate
    \/ PoolNew
    \/ SubmitDirectory
    \/ CompleteDir
    \/ CompleteFile
    \/ JoinStop
    \/ JoinWait
    \/ JoinReturn
    \/ FindCollect

ParallelNext ==
    \/ FindValidate
    \/ PoolNew
    \/ SubmitDirectory
    \/ CompleteDir
    \/ CompleteFile
    \/ JoinStop
    \/ JoinWait
    \/ JoinReturn
    \/ FindCollect
    \/ \E w \in 1..MaxThreads : WorkerLoop(w)
    \/ \E w \in 1..MaxThreads : WorkerRecvDir(w)
    \/ \E w \in 1..MaxThreads : WorkerHandleDir(w)
    \/ \E w \in 1..MaxThreads : WorkerRecvFile(w)
    \/ \E w \in 1..MaxThreads : WorkerHandleFile(w)

\* the calling thread and every worker thread are scheduled by the
\* operating system: none of them is suspended forever
ParallelSpec ==
    /\ ParallelInit
    /\ [][ParallelNext]_vars
    /\ WF_vars(ParallelCaller)
    /\ \A w \in 1..MaxThreads : WF_vars(WorkerStep(w))

----------------------------------------------------------------------------
(* core::worker::WorkerPool used on its own: a client builds the pool with *)
(* the consumers of FileFinder, calls submit_directory, submit_file and    *)
(* complete through references to the pool, in any order, and ends with    *)
(* join, with a drop of the pool, or with neither.  unit.arg lists the     *)
(* items a submit call has queued, unit.out the calls made so far.         *)

PoolInit ==
    /\ cfg \in PoolConfigs
    /\ pc = "new_pool"
    /\ result = NoResult
    /\ pool = FALSE
    /\ stopped = FALSE
    /\ dir_q = <<>>
    /\ file_q = <<>>
    /\ workers = <<>>
    /\ wpc = <<>>
    /\ wmsg = <<>>
    /\ handled = <<>>
    /\ notified = <<>>
    /\ obs = [i \in DOMAIN cfg.observers |-> NewObserver]
    /\ unit = [op |-> "pool", arg |-> <<>>,
               out |-> [calls |-> 0, completes |-> 0,
                        last |-> [call |-> "none", ret |-> FALSE]],
               done |-> FALSE]

\* the pool exists: it has not been handed to join, and Drop has not
\* returned; a call of submit made while Drop runs comes through a
\* reference another thread still holds, which is what the stopped flag is
\* read for
PoolLive ==
    pc \in {"submit", "client_complete_d", "client_complete_f",
            "drop_complete_d", "drop_complete_f", "drop_reap"}

\* a submit_directory that does not read the stopped flag
submit_directory_unchecked(path) ==
    IF Disconnected THEN [ret |-> FALSE, q |-> dir_q]
    ELSE [ret |-> TRUE, q |-> Append(dir_q, Directory(path))]

\* WorkerPool::submit_directory: the value returned and the directory
\* channel after the call
submit_directory(path) ==
    IF stopped THEN [ret |-> FALSE, q |-> dir_q]
    ELSE IF Disconnected THEN [ret |-> FALSE, q |-> dir_q]
    ELSE [ret |-> TRUE, q |-> Append(dir_q, Directory(path))]

\* WorkerPool::submit_file: the value returned and the file channel after
\* the call
submit_file(path) ==
    IF stopped THEN [ret |-> FALSE, q |-> file_q]
    ELSE IF Disconnected THEN [ret |-> FALSE, q |-> file_q]
    ELSE [ret |-> TRUE, q |-> Append(file_q, FileMsg(path))]

ClientSubmitDirectory ==
    /\ PoolLive /\ unit.out.calls < MaxCalls
    /\ \E path \in {SubmittedDir} :
       \E r \in {submit_directory(path)} :
          /\ dir_q' = r.q
          /\ unit' = [unit EXCEPT
                !.arg = IF r.ret THEN Append(@, Directory(path)) ELSE @,
                !.out = [@ EXCEPT !.calls = @ + 1,
                                  !.last = [call |-> "submit_directory",
                                            ret |-> r.ret]]]
    /\ UNCHANGED <<cfg, pc, result, pool, stopped, file_q, workers, wpc, wmsg,
                   handled, notified, obs>>

ClientSubmitFile ==
    /\ PoolLive /\ unit.out.calls < MaxCalls
    /\ \E path \in {SubmittedFile} :
       \E r \in {submit_file(path)} :
          /\ file_q' = r.q
          /\ unit' = [unit EXCEPT
                !.arg = IF r.ret THEN Append(@, FileMsg(path)) ELSE @,
                !.out = [@ EXCEPT !.calls = @ + 1,
                                  !.last = [call |-> "submit_file",
                                            ret |-> r.ret]]]
    /\ UNCHANGED <<cfg, pc, result, pool, stopped, dir_q, workers, wpc, wmsg,
                   handled, notified, obs>>

\* the client calls complete(): the two sends are CompleteDir and
\* CompleteFile
ClientComplete ==
    /\ pc = "submit" /\ unit.out.calls < MaxCalls
    /\ pc' = "client_complete_d"
    /\ unit' = [unit EXCEPT
          !.out = [@ EXCEPT !.calls = @ + 1, !.completes = @ + 1,
                            !.last = [call |-> "complete", ret |-> TRUE]]]
    /\ UNCHANGED <<cfg, result, pool, stopped, dir_q, file_q, workers, wpc,
                   wmsg, handled, notified, obs>>

\* the client calls join(): JoinStop and the steps after it
ClientJoin ==
    /\ pc = "submit"
    /\ pc' = "join"
    /\ unit' = [unit EXCEPT
          !.out = [@ EXCEPT !.last = [call |-> "join", ret |-> TRUE]]]
    /\ UNCHANGED <<cfg, result, pool, stopped, dir_q, file_q, workers, wpc,
                   wmsg, handled, notified, obs>>

\* a pool that is let go without a Drop implementation: nothing is stored
\* and nothing is sent
DropStop_no_impl ==
    /\ pc = "submit"
    /\ pc' = "dropped"
    /\ workers' = <<>>
    /\ unit' = [unit EXCEPT
          !.out = [@ EXCEPT !.last = [call |-> "drop", ret |-> TRUE]]]
    /\ UNCHANGED <<cfg, result, pool, stopped, dir_q, file_q, wpc, wmsg,
                   handled, notified, obs>>

\* Drop for WorkerPool, the store to the stopped flag; complete() follows
DropStop ==
    /\ pc = "submit"
    /\ stopped' = TRUE
    /\ pc' = "drop_complete_d"
    /\ unit' = [unit EXCEPT
          !.out = [@ EXCEPT !.last = [call |-> "drop", ret |-> TRUE]]]
    /\ UNCHANGED <<cfg, result, pool, dir_q, file_q, workers, wpc, wmsg,
                   handled, notified, obs>>

\* Drop for WorkerPool, the loop over the handles: the threads that have
\* finished are joined, the others are let go without waiting
DropReap ==
    /\ pc = "drop_reap"
    /\ workers' = <<>>
    /\ pc' = "dropped"
    /\ UNCHANGED <<unit, cfg, result, pool, stopped, dir_q, file_q, wpc, wmsg,
                   handled, notified, obs>>

\* the steps of a call in progress on the thread that owns the pool
PoolOwner ==
    \/ PoolNew
    \/ CompleteDir
    \/ CompleteFile
    \/ JoinStop
    \/ JoinWait
    \/ JoinReturn
    \/ DropReap

PoolNext ==
    \/ PoolNew
    \/ ClientSubmitDirectory
    \/ ClientSubmitFile
    \/ ClientComplete
    \/ ClientJoin
    \/ DropStop
    \/ CompleteDir
    \/ CompleteFile
    \/ JoinStop
    \/ JoinWait
    \/ JoinReturn
    \/ DropReap
    \/ \E w \in 1..MaxThreads : WorkerLoop(w)
    \/ \E w \in 1..MaxThreads : WorkerRecvDir(w)
    \/ \E w \in 1..MaxThreads : WorkerHandleDir(w)
    \/ \E w \in 1..MaxThreads : WorkerRecvFile(w)
    \/ \E w \in 1..MaxThreads : WorkerHandleFile(w)

\* a call in progress runs to its end and every worker thread is scheduled;
\* the client is free to make no further call
PoolSpec ==
    /\ PoolInit
    /\ [][PoolNext]_vars
    /\ WF_vars(PoolOwner)
    /\ \A w \in 1..MaxThreads : WF_vars(WorkerStep(w))

----------------------------------------------------------------------------
(* search::advanced: OqabFileFinder::find and its WorkerPool.  cfg is the  *)
(* finder built by OqabFileFinderBuilder with an ExtensionFilter and the   *)
(* path find is called with; dir_q is the crossbeam channel, unit.out      *)
(* holds the DashMap of find (results), the DashMap each worker thread     *)
(* owns (worker_results), the directories the traversal has still to       *)
(* queue (queue) and the dirs_processed counter.                           *)

ProcessDirectory(dir) == [k |-> "ProcessDirectory", p |-> dir]
Terminate == [k |-> "Terminate", p |-> <<>>]

OqabConfigs ==
    [engine : {"oqab"},
     root : {Root2, EmptyRoot, Missing, <<"r", ".git">>},
     workers_count : 0..MaxThreads,
     traversal_strategy : {"BreadthFirst", "DepthFirst"}]

OqabInit ==
    /\ cfg \in OqabConfigs
    /\ pc = "find"
    /\ result = NoResult
    /\ pool = FALSE
    /\ stopped = FALSE
    /\ dir_q = <<>>
    /\ file_q = <<>>
    /\ workers = <<>>
    /\ wpc = <<>>
    /\ wmsg = <<>>
    /\ handled = <<>>
    /\ notified = <<>>
    /\ obs = <<>>
    /\ unit = [op |-> "oqab", arg |-> <<>>,
               out |-> [results |-> {}, worker_results |-> <<>>,
                        queue |-> <<>>, dirs_processed |-> 0],
               done |-> FALSE]

\* every Receiver of the channel has been dropped: WorkerPool::new keeps
\* none, each worker thread owns one until it leaves worker_loop
ReceiversDropped == \A w \in DOMAIN wpc : wpc[w] = "exited"

\* the entries of a directory that Path::is_dir accepts, in read_dir order
SubDirectories(dir) ==
    LET ch == Stat(dir).children IN
    SelectSeq([i \in DOMAIN ch |-> dir \o <<ch[i]>>], IsDir)

\* find up to the traversal: the DashMap, and WorkerPool::new, which hands
\* each thread results.clone(), a copy of the map as it is at that moment
OqabNew ==
    /\ pc = "find"
    /\ pool' = TRUE
    /\ wpc' = [w \in 1..cfg.workers_count |-> "recv"]
    /\ wmsg' = [w \in 1..cfg.workers_count |-> Terminate]
    /\ unit' = [unit EXCEPT
                  !.out.worker_results =
                      [w \in 1..cfg.workers_count |-> unit.out.results],
                  !.out.queue = <<cfg.root>>]
    /\ pc' = "search"
    /\ UNCHANGED <<cfg, result, stopped, dir_q, file_q, workers, handled,
                   notified, obs>>

\* one iteration of breadth_first_search, or one call of depth_first_search
\* (whose recursion visits the subdirectories before the directories still
\* pending): queue_directory, then read_dir to find the subdirectories
OqabSearch ==
    /\ pc = "search"
    /\ unit.out.queue # <<>>
    /\ LET dir == Head(unit.out.queue)
           rest == Tail(unit.out.queue)
       IN
       IF ReceiversDropped
       THEN /\ result' = Err("Failed to queue directory for processing")
            /\ pc' = "done"
            /\ unit' = [unit EXCEPT
                          !.out.dirs_processed = @ + 1, !.done = TRUE]
            /\ UNCHANGED <<dir_q, notified>>
       ELSE /\ dir_q' = Append(dir_q, ProcessDirectory(dir))
            /\ IF read_dir_fails(dir, 0)
               THEN /\ notified' = Append(notified, DirEv(dir))
                    /\ unit' = [unit EXCEPT !.out.dirs_processed = @ + 1,
                                            !.out.queue = rest]
               ELSE /\ notified' = notified
                    /\ unit' = [unit EXCEPT
                                  !.out.dirs_processed = @ + 1,
                                  !.out.queue =
                                      IF cfg.traversal_strategy = "BreadthFirst"
                                      THEN rest \o SubDirectories(dir)
                                      ELSE SubDirectories(dir) \o rest]
            /\ UNCHANGED <<pc, result>>
    /\ UNCHANGED <<cfg, pool, stopped, file_q, workers, wpc, wmsg, handled,
                   obs>>

\* WorkerPool::wait_and_terminate: one Terminate per worker, and the pool
\* with its Sender is dropped
wait_and_terminate ==
    /\ pc = "search"
    /\ unit.out.queue = <<>>
    /\ dir_q' = dir_q \o [i \in 1..cfg.workers_count |-> Terminate]
    /\ pool' = FALSE
    /\ pc' = "collect"
    /\ UNCHANGED <<cfg, result, stopped, file_q, workers, wpc, wmsg, handled,
                   notified, obs, unit>>

\* results.iter().map(..).collect(): the keys of find's map in the order
\* the map yields them
OqabCollect ==
    /\ pc = "collect"
    /\ \E found_files \in
           {f \in [1..Cardinality(unit.out.results) -> unit.out.results] :
                Range(f) = unit.out.results} :
           result' = Ok(found_files)
    /\ pc' = "done"
    /\ unit' = [unit EXCEPT !.done = TRUE]
    /\ UNCHANGED <<cfg, pool, stopped, dir_q, file_q, workers, wpc, wmsg,
                   handled, notified, obs>>

\* worker_loop: receiver.recv() blocks while the channel is empty and a
\* Sender exists
OqabRecv(w) ==
    /\ w \in DOMAIN wpc
    /\ wpc[w] = "recv"
    /\ IF dir_q # <<>>
       THEN /\ dir_q' = Tail(dir_q)
            /\ wmsg' = [wmsg EXCEPT ![w] = Head(dir_q)]
            /\ wpc' = [wpc EXCEPT ![w] = IF Head(dir_q) = Terminate
                                         THEN "exited" ELSE "process"]
       ELSE /\ ~pool /\ pc # "find"
            /\ wpc' = [wpc EXCEPT ![w] = "exited"]
            /\ UNCHANGED <<dir_q, wmsg>>
    /\ UNCHANGED <<cfg, pc, result, pool, stopped, file_q, workers, handled,
                   notified, obs, unit>>

\* the events of the loop over entries_vec, and the paths it inserts
RECURSIVE MatchingFiles(_, _)
MatchingFiles(dir, names) ==
    IF names = <<>> THEN <<>>
    ELSE LET path == dir \o <<Head(names)>> IN
         (IF IsFile(path) /\ matches(cfg, path) THEN <<path>> ELSE <<>>)
             \o MatchingFiles(dir, Tail(names))

\* WorkerPool::process_directory, run by worker w on its own map
OqabProcess(w) ==
    /\ w \in DOMAIN wpc
    /\ wpc[w] = "process"
    /\ LET dir == wmsg[w].p IN
       IF read_dir_fails(dir, 0)
       THEN /\ notified' = Append(notified, DirEv(dir))
            /\ unit' = unit
       ELSE \E found \in {MatchingFiles(dir, Stat(dir).children)} :
            /\ notified' = notified \o <<DirEv(dir)>>
                               \o [i \in DOMAIN found |-> FileEv(found[i])]
            /\ unit' = [unit EXCEPT
                          !.out.worker_results[w] = @ \cup Range(found)]
    /\ handled' = Append(handled, wmsg[w])
    /\ wpc' = [wpc EXCEPT ![w] = "recv"]
    /\ UNCHANGED <<cfg, pc, result, pool, stopped, dir_q, file_q, workers,
                   wmsg, obs>>

OqabNext ==
    \/ OqabNew
    \/ OqabSearch
    \/ wait_and_terminate
    \/ OqabCollect
    \/ \E w \in 1..MaxThreads : OqabRecv(w)
    \/ \E w \in 1..MaxThreads : OqabProcess(w)

OqabSpec == OqabInit /\ [][OqabNext]_vars

----------------------------------------------------------------------------
(* Two calls of find on one FileFinder, single-threaded: the filter and    *)
(* observer registries of the finder outlive the first call.  unit.arg is  *)
(* the root of the second call, unit.out the result of the first call and  *)
(* the number of observer calls made before the second call began.         *)

RepeatConfigs ==
    {c \in CoreConfigs :
        /\ c.root \in {Root, EmptyRoot, <<"r", "sub">>}
        /\ c.num_threads = 0
        /\ c.max_depth = None
        /\ ~c.ignore_hidden
        /\ c.filters \in {<<>>, <<"extension">>}}

RepeatInit ==
    /\ cfg \in RepeatConfigs
    /\ pc = "call"
    /\ result = NoResult
    /\ pool = FALSE
    /\ stopped = FALSE
    /\ dir_q = <<>>
    /\ file_q = <<>>
    /\ workers = <<>>
    /\ wpc = <<>>
    /\ wmsg = <<>>
    /\ handled = <<>>
    /\ notified = <<>>
    /\ obs = [i \in DOMAIN cfg.observers |-> NewObserver]
    /\ \E root \in {c.root : c \in RepeatConfigs} :
           unit = [op |-> "repeat", arg |-> root,
                   out |-> [first |-> NoResult, mark |-> 0], done |-> FALSE]

\* the caller keeps the finder and calls find(unit.arg)
FindAgain ==
    /\ pc = "done" /\ unit.op = "repeat" /\ ~unit.done
    /\ cfg' = [cfg EXCEPT !.root = unit.arg]
    /\ unit' = [unit EXCEPT !.out = [first |-> result, mark |-> Len(notified)],
                            !.done = TRUE]
    /\ result' = NoResult
    /\ pc' = "call"
    /\ UNCHANGED <<pool, stopped, dir_q, file_q, workers, wpc, wmsg, handled,
                   notified, obs>>

RepeatNext ==
    \/ FindValidate
    \/ FindSingle
    \/ FindCollect
    \/ FindAgain

RepeatSpec == RepeatInit /\ [][RepeatNext]_vars

----------------------------------------------------------------------------
(* Calls of the filter functions on their own: FilterRegistry::apply_all,  *)
(* CompositeFilter::filter and ExtensionFilter::filter, each on arguments  *)
(* chosen at the start                                                     *)

SeqsUpTo(S, n) == UNION {[1..k -> S] : k \in 0..n}

\* the filters a registry or a composite is built from
UnitFilters == {"accepts", "rejects", "prunes", "extension"}
UnitPaths == {<<"r", "a.rs">>, <<"r", "b.txt">>}
\* the extensions ExtensionFilter::new is called with
UnitExtensions == {"rs", ".rs", "*", ""}

\* no search is in progress
IdleConfig == [engine |-> "none", root |-> Root, observers |-> <<>>]

\* the bounds SizeFilter is built with, and the lengths a file system
\* reports for a directory
UnitSizes == {None, Some(1), Some(2), Some(3)}
DirLens == {0, 4}

UnitCall(op, args) ==
    [op : {op}, arg : args, out : {<<>>}, done : {FALSE}]

UnitCalls ==
    UnitCall("apply_all",
             [registered : SeqsUpTo(UnitFilters, MaxFilters),
              path : UnitPaths])
    \cup UnitCall("composite",
                  [operation : {"And", "Or"},
                   children : SeqsUpTo(UnitFilters, MaxFilters),
                   path : UnitPaths])
    \cup UnitCall("extension",
                  [extension : UnitExtensions, path : DOMAIN FS])
    \cup UnitCall("grep",
                  [path : {Root},
                   recursive : BOOLEAN,
                   follow_symlinks : BOOLEAN,
                   file_extension : {None, Some(FilterExt)},
                   file_name : {None},
                   min_size : {None},
                   max_size : {None},
                   files_with_matches : BOOLEAN,
                   line_number : BOOLEAN,
                   show_progress : BOOLEAN,
                   open : {"ok", "denied", "error"}])
    \cup UnitCall("args",
                  [workers : {None, Some(0), Some(MaxThreads)},
                   path : {None, Some(Root), Some(Missing)},
                   min_size : {None, Some("1kb"), Some("abc")},
                   max_size : {None, Some("2"), Some("big")},
                   newer_than : {None, Some("2024-01-01"), Some("yesterday")},
                   older_than : {None},
                   no_recursive : BOOLEAN])
    \cup UnitCall("notify",
                  [registered : SeqsUpTo({"Null", "Silent", "Tracking",
                                          "Poisoned"}, MaxFilters),
                   ev : {FileEv(<<"r", "a.rs">>), DirEv(Root)}])
    \cup UnitCall("size",
                  [min_size : UnitSizes,
                   max_size : UnitSizes,
                   path : DOMAIN FS \cup {Missing},
                   dir_len : DirLens])

UnitInit ==
    /\ cfg = IdleConfig
    /\ pc = "idle"
    /\ result = NoResult
    /\ pool = FALSE
    /\ stopped = FALSE
    /\ dir_q = <<>>
    /\ file_q = <<>>
    /\ workers = <<>>
    /\ wpc = <<>>
    /\ wmsg = <<>>
    /\ handled = <<>>
    /\ notified = <<>>
    /\ obs = <<>>
    /\ unit \in UnitCalls

\* FilterRegistry::apply_all on a registry the filters were registered in,
\* in the order of arg.registered
RegistryApplyAll ==
    /\ unit.op = "apply_all" /\ ~unit.done
    /\ \E values \in HashMapValues(unit.arg.registered) :
          unit' = [unit EXCEPT !.out = ApplyAllFrom(values, unit.arg.path),
                               !.done = TRUE]
    /\ UNCHANGED <<cfg, pc, result, pool, stopped, dir_q, file_q, workers,
                   wpc, wmsg, handled, notified, obs>>

\* CompositeFilter::filter
CompositeFilterCall ==
    /\ unit.op = "composite" /\ ~unit.done
    /\ unit' = [unit EXCEPT
                   !.out = CompositeFilter(unit.arg.operation,
                                           unit.arg.children, unit.arg.path),
                   !.done = TRUE]
    /\ UNCHANGED <<cfg, pc, result, pool, stopped, dir_q, file_q, workers,
                   wpc, wmsg, handled, notified, obs>>

\* ExtensionFilter::new(extension).filter(path)
ExtensionFilterCall ==
    /\ unit.op = "extension" /\ ~unit.done
    /\ unit' = [unit EXCEPT
                   !.out = ExtensionFilterOf(
                               ExtensionFilterNew(unit.arg.extension),
                               unit.arg.path),
                   !.done = TRUE]
    /\ UNCHANGED <<cfg, pc, result, pool, stopped, dir_q, file_q, workers,
                   wpc, wmsg, handled, notified, obs>>

\* GrepCommand::execute with the command's own configuration (the
\* ConfigManager is not initialized): the files of search_directory are
\* searched in order; out holds the files, the printed lines, the metrics
\* read from the observer and whether execute returned Ok
GrepExecute ==
    /\ unit.op = "grep" /\ ~unit.done
    /\ \E evs \in {walk_directory(unit.arg, unit.arg.path, 0)} :
       \E r \in {process_files(unit.arg, FilePaths(evs), 1, <<>>, 0)} :
          unit' = [unit EXCEPT
                     !.out = [ok |-> r.ok,
                              files |-> FilePaths(evs),
                              lines |-> r.lines,
                              total_files |-> Len(FilePaths(evs)),
                              total_dirs |-> Len(evs) - Len(FilePaths(evs))],
                     !.done = TRUE]
    /\ UNCHANGED <<cfg, pc, result, pool, stopped, dir_q, file_q, workers,
                   wpc, wmsg, handled, notified, obs>>

\* Args::process
ArgsProcess ==
    /\ unit.op = "args" /\ ~unit.done
    /\ unit' = [unit EXCEPT !.out = process(unit.arg), !.done = TRUE]
    /\ UNCHANGED <<cfg, pc, result, pool, stopped, dir_q, file_q, workers,
                   wpc, wmsg, handled, notified, obs>>

\* SizeFilter::new(min_size, max_size).filter(path)
SizeFilterCall ==
    /\ unit.op = "size" /\ ~unit.done
    /\ unit' = [unit EXCEPT
                   !.out = SizeFilter(unit.arg.min_size, unit.arg.max_size,
                                      unit.arg.path, unit.arg.dir_len),
                   !.done = TRUE]
    /\ UNCHANGED <<cfg, pc, result, pool, stopped, dir_q, file_q, workers,
                   wpc, wmsg, handled, notified, obs>>

\* ObserverRegistry::register for each observer of arg.registered in turn
\* (a push onto the vector), then one notify_file_found or
\* notify_directory_processed
RegistryNotify ==
    /\ unit.op = "notify" /\ ~unit.done
    /\ unit' = [unit EXCEPT
                   !.out = notify(unit.arg.registered,
                                  [i \in DOMAIN unit.arg.registered |->
                                      NewObserver],
                                  unit.arg.ev, 1, <<>>),
                   !.done = TRUE]
    /\ UNCHANGED <<cfg, pc, result, pool, stopped, dir_q, file_q, workers,
                   wpc, wmsg, handled, notified, obs>>

UnitNext ==
    \/ RegistryApplyAll
    \/ CompositeFilterCall
    \/ ExtensionFilterCall
    \/ GrepExecute
    \/ ArgsProcess
    \/ SizeFilterCall
    \/ RegistryNotify

UnitSpec == UnitInit /\ [][UnitNext]_vars

----------------------------------------------------------------------------
(* core::singleton::ConfigManager: threads that call initialize and        *)
(* update_config on the singleton, each up to MaxCalls times.  unit.out    *)
(* holds the manager: the                                                  *)
(* configuration behind the mutex (0 is FileSearchConfig::new()), the      *)
(* initialized flag, the thread that holds the mutex (0 for none), and for *)
(* the properties the number of times initialize has assigned the          *)
(* configuration.  wmsg[t] is the call thread t is in: its argument and    *)
(* whether initialized was already set when the call began.                *)

NoInitialize == [config |-> 0, late |-> FALSE]
ConfigValues == {1, 2}

ConfigInit ==
    /\ cfg = IdleConfig
    /\ pc = "idle"
    /\ result = NoResult
    /\ pool = FALSE
    /\ stopped = FALSE
    /\ dir_q = <<>>
    /\ file_q = <<>>
    /\ workers = <<>>
    /\ wpc = [t \in 1..MaxThreads |-> "idle"]
    /\ wmsg = [t \in 1..MaxThreads |-> NoInitialize]
    /\ handled = <<>>
    /\ notified = <<>>
    /\ obs = <<>>
    /\ unit = [op |-> "singleton", arg |-> <<>>,
               out |-> [config |-> 0, initialized |-> FALSE, lock |-> 0,
                        writes |-> 0,
                        calls |-> [t \in 1..MaxThreads |-> 0]],
               done |-> FALSE]

\* initialize(config) up to the test: !self.initialized.load(SeqCst)
initialize(t) ==
    /\ t \in DOMAIN wpc
    /\ wpc[t] = "idle"
    /\ unit.out.calls[t] < MaxCalls
    /\ unit' = [unit EXCEPT !.out.calls[t] = @ + 1]
    /\ IF unit.out.initialized
       THEN UNCHANGED <<wpc, wmsg>>
       ELSE /\ wpc' = [wpc EXCEPT ![t] = "lock"]
            /\ \E config \in ConfigValues :
                   wmsg' = [wmsg EXCEPT
                              ![t] = [config |-> config,
                                      late |-> unit.out.initialized]]
    /\ UNCHANGED <<cfg, pc, result, pool, stopped, dir_q, file_q, workers,
                   handled, notified, obs>>

\* let mut cfg = self.config.lock().unwrap(); *cfg = config;
initialize_write(t) ==
    /\ t \in DOMAIN wpc
    /\ wpc[t] = "lock"
    /\ unit.out.lock = 0
    /\ unit' = [unit EXCEPT !.out.lock = t,
                            !.out.config = wmsg[t].config,
                            !.out.writes = @ + 1]
    /\ wpc' = [wpc EXCEPT ![t] = "store"]
    /\ UNCHANGED <<cfg, pc, result, pool, stopped, dir_q, file_q, workers,
                   wmsg, handled, notified, obs>>

\* self.initialized.store(true, SeqCst); the guard is dropped at the end of
\* the block
initialize_store(t) ==
    /\ t \in DOMAIN wpc
    /\ wpc[t] = "store"
    /\ unit' = [unit EXCEPT !.out.initialized = TRUE, !.out.lock = 0]
    /\ wpc' = [wpc EXCEPT ![t] = "idle"]
    /\ wmsg' = [wmsg EXCEPT ![t] = NoInitialize]
    /\ UNCHANGED <<cfg, pc, result, pool, stopped, dir_q, file_q, workers,
                   handled, notified, obs>>

\* update_config(config): the configuration is assigned under the mutex
update_config(t) ==
    /\ t \in DOMAIN wpc
    /\ wpc[t] = "idle"
    /\ unit.out.calls[t] < MaxCalls
    /\ unit.out.lock = 0
    /\ \E config \in ConfigValues :
           unit' = [unit EXCEPT !.out.calls[t] = @ + 1,
                                !.out.config = config]
    /\ UNCHANGED <<cfg, pc, result, pool, stopped, dir_q, file_q, workers,
                   wpc, wmsg, handled, notified, obs>>

ConfigNext ==
    \/ \E t \in 1..MaxThreads : initialize(t)
    \/ \E t \in 1..MaxThreads : update_config(t)
    \/ \E t \in 1..MaxThreads : initialize_write(t)
    \/ \E t \in 1..MaxThreads : initialize_store(t)

ConfigSpec == ConfigInit /\ [][ConfigNext]_vars

----------------------------------------------------------------------------
(* TrackingObserver used by threads that share references to it: each      *)
(* thread makes up to MaxCalls calls of file_found, merge_from and clone on *)
(* the observers in obs.  unit.out.lock[o] is the thread that holds the     *)
(* found_files mutex of observer o (0 for none), unit.out.poisoned[o] tells *)
(* whether that mutex is poisoned, wmsg[t] is the call thread t is in.      *)

TrackedPath == <<"r", "a.rs">>
NoCall == [op |-> "none", self |-> 0, other |-> 0]

TrackingInit ==
    /\ cfg = IdleConfig
    /\ pc = "idle"
    /\ result = NoResult
    /\ pool = FALSE
    /\ stopped = FALSE
    /\ dir_q = <<>>
    /\ file_q = <<>>
    /\ workers = <<>>
    /\ wpc = [t \in 1..MaxThreads |-> "idle"]
    /\ wmsg = [t \in 1..MaxThreads |-> NoCall]
    /\ handled = <<>>
    /\ notified = <<>>
    /\ obs = <<NewObserver, NewObserver>>
    /\ unit = [op |-> "tracking", arg |-> <<>>,
               out |-> [lock |-> <<0, 0>>, poisoned |-> <<FALSE, FALSE>>,
                        calls |-> [t \in 1..MaxThreads |-> 0]],
               done |-> FALSE]

\* a thread outside any call that may still make one
MayCall(t) ==
    /\ t \in DOMAIN wpc
    /\ wpc[t] = "idle"
    /\ unit.out.calls[t] < MaxCalls

\* file_found up to the lock: files_count.fetch_add(1)
file_found(t) ==
    /\ MayCall(t)
    /\ \E o \in DOMAIN obs :
        /\ obs' = [obs EXCEPT ![o].files_count = @ + 1]
        /\ wmsg' = [wmsg EXCEPT
                      ![t] = [op |-> "file_found", self |-> o, other |-> o]]
    /\ wpc' = [wpc EXCEPT ![t] = "file_found_lock"]
    /\ unit' = [unit EXCEPT !.out.calls[t] = @ + 1]
    /\ UNCHANGED <<cfg, pc, result, pool, stopped, dir_q, file_q, workers,
                   handled, notified>>

\* file_found from found_files.lock() on: the path is pushed, or on a
\* poisoned mutex a warning is logged
file_found_store(t) ==
    /\ t \in DOMAIN wpc
    /\ wpc[t] = "file_found_lock"
    /\ unit.out.lock[wmsg[t].self] = 0
    /\ obs' = IF unit.out.poisoned[wmsg[t].self] THEN obs
              ELSE [obs EXCEPT
                      ![wmsg[t].self].found_files = Append(@, TrackedPath)]
    /\ wpc' = [wpc EXCEPT ![t] = "idle"]
    /\ wmsg' = [wmsg EXCEPT ![t] = NoCall]
    /\ UNCHANGED <<cfg, pc, result, pool, stopped, dir_q, file_q, workers,
                   handled, notified, unit>>

\* a call self.merge_from(other) begins
merge_from(t) ==
    /\ MayCall(t)
    /\ \E self \in DOMAIN obs, other \in DOMAIN obs :
        wmsg' = [wmsg EXCEPT
                   ![t] = [op |-> "merge_from", self |-> self,
                           other |-> other]]
    /\ wpc' = [wpc EXCEPT ![t] = "merge_lock_other"]
    /\ unit' = [unit EXCEPT !.out.calls[t] = @ + 1]
    /\ UNCHANGED <<cfg, pc, result, pool, stopped, dir_q, file_q, workers,
                   handled, notified, obs>>

\* other.lock_found_files()?
merge_lock_other(t) ==
    /\ t \in DOMAIN wpc
    /\ wpc[t] = "merge_lock_other"
    /\ unit.out.lock[wmsg[t].other] = 0
    /\ IF unit.out.poisoned[wmsg[t].other]
       THEN /\ wpc' = [wpc EXCEPT ![t] = "idle"]
            /\ wmsg' = [wmsg EXCEPT ![t] = NoCall]
            /\ unit' = unit
       ELSE /\ wpc' = [wpc EXCEPT ![t] = "merge_lock_self"]
            /\ wmsg' = wmsg
            /\ unit' = [unit EXCEPT !.out.lock[wmsg[t].other] = t]
    /\ UNCHANGED <<cfg, pc, result, pool, stopped, dir_q, file_q, workers,
                   handled, notified, obs>>

\* self.lock_found_files()? and the rest of merge_from.  Mutex::lock on a
\* mutex the calling thread holds never returns: it deadlocks, or it
\* panics, and the unwinding drops the guard held and poisons the mutex
merge_lock_self(t) ==
    /\ t \in DOMAIN wpc
    /\ wpc[t] = "merge_lock_self"
    /\ LET self == wmsg[t].self
           other == wmsg[t].other
       IN
       IF unit.out.lock[self] = t
       THEN \E outcome \in {"deadlocked", "panicked"} :
            /\ wpc' = [wpc EXCEPT ![t] = outcome]
            /\ unit' = IF outcome = "panicked"
                       THEN [unit EXCEPT !.out.lock[other] = 0,
                                         !.out.poisoned[other] = TRUE]
                       ELSE unit
            /\ UNCHANGED <<obs, wmsg>>
       ELSE /\ unit.out.lock[self] = 0
            /\ obs' = IF unit.out.poisoned[self] THEN obs
                      ELSE [obs EXCEPT
                              ![self] =
                                  [files_count |->
                                       @.files_count + obs[other].files_count,
                                   dirs_count |->
                                       @.dirs_count + obs[other].dirs_count,
                                   found_files |->
                                       @.found_files \o obs[other].found_files]]
            /\ unit' = [unit EXCEPT !.out.lock[other] = 0]
            /\ wpc' = [wpc EXCEPT ![t] = "idle"]
            /\ wmsg' = [wmsg EXCEPT ![t] = NoCall]
    /\ UNCHANGED <<cfg, pc, result, pool, stopped, dir_q, file_q, workers,
                   handled, notified>>

\* Clone for TrackingObserver: a new observer with the two counters copied
clone(t) ==
    /\ MayCall(t)
    /\ Len(obs) < MaxObservers
    /\ \E o \in DOMAIN obs :
        obs' = Append(obs, [NewObserver EXCEPT
                              !.files_count = obs[o].files_count,
                              !.dirs_count = obs[o].dirs_count])
    /\ unit' = [unit EXCEPT !.out.calls[t] = @ + 1,
                            !.out.lock = Append(@, 0),
                            !.out.poisoned = Append(@, FALSE)]
    /\ UNCHANGED <<cfg, pc, result, pool, stopped, dir_q, file_q, workers,
                   wpc, wmsg, handled, notified>>

\* what a thread inside a call does next
TrackingStep(t) ==
    \/ file_found_store(t)
    \/ merge_lock_other(t)
    \/ merge_lock_self(t)

TrackingNext ==
    \/ \E t \in 1..MaxThreads : file_found(t)
    \/ \E t \in 1..MaxThreads : file_found_store(t)
    \/ \E t \in 1..MaxThreads : merge_from(t)
    \/ \E t \in 1..MaxThreads : merge_lock_other(t)
    \/ \E t \in 1..MaxThreads : merge_lock_self(t)
    \/ \E t \in 1..MaxThreads : clone(t)

\* a thread inside a call is scheduled; no thread has to make a call
TrackingSpec ==
    /\ TrackingInit
    /\ [][TrackingNext]_vars
    /\ \A t \in 1..MaxThreads : WF_vars(TrackingStep(t))

----------------------------------------------------------------------------
(* What the claims speak about *)

CoreCall == cfg.engine = "core"
ValidRoot == Exists(cfg.root) /\ IsDir(cfg.root)
ParallelCall == CoreCall /\ ValidRoot /\ cfg.num_threads >= 2
Returned == pc = "done"
JoinReturned == pool /\ pc \in {"collect", "done"}
HasTracking == \E i \in DOMAIN cfg.observers : cfg.observers[i] = "Tracking"
FollowLinks ==
    IF cfg.engine = "core" THEN cfg.follow_links
    ELSE IF cfg.engine \in {"standard", "command"} THEN cfg.follow_symlinks
    ELSE TRUE

IsPrefix(a, b) == Len(a) <= Len(b) /\ SubSeq(b, 1, Len(a)) = a
\* the directories strictly between the root and f, the root included
DirsAbove(f) == {SubSeq(f, 1, k) : k \in Len(cfg.root)..(Len(f) - 1)}
DepthOf(d) == Len(d) - Len(cfg.root)

\* every registered predicate returns Accept
AllAccept(path) ==
    \A i \in DOMAIN cfg.filters : Filter(cfg.filters[i], path) = Accept

\* the regular files below the root that are reached through real,
\* readable directories
RegularFilesBelowRoot ==
    {f \in DOMAIN FS :
        /\ FS[f].kind = "file"
        /\ IsPrefix(cfg.root, f) /\ Len(f) > Len(cfg.root)
        /\ \A d \in DirsAbove(f) : FS[d].kind = "dir" /\ FS[d].readable}

\* the files FileFinder::find has to return, with the depth limit lim
\* (None for no limit)
CoreExpected(lim) ==
    {f \in RegularFilesBelowRoot :
        /\ AllAccept(f)
        /\ should_process_file(cfg, f)
        /\ \A d \in DirsAbove(f) :
              /\ should_process_directory(cfg, d)
              /\ lim # None => DepthOf(d) <= lim[1]}

----------------------------------------------------------------------------
(* C1: in parallel mode the root Directory item has been handed to the     *)
(* directory handler, and every notification the handler produces has been *)
(* delivered to the observers, before find reads the tracking observer's   *)
(* list.                                                                   *)
C1_AllObservedBeforeReturn ==
    (ParallelCall /\ JoinReturned) =>
        /\ Directory(cfg.root) \in Range(handled)
        /\ Range(directory_consumer(cfg.root)) \subseteq Range(notified)

----------------------------------------------------------------------------
(* C2: every path in the list returned by FileFinder::find is accepted by  *)
(* every registered predicate and by the traversal policy's                *)
(* should_process_file, in single-threaded mode, parallel mode and the     *)
(* fallback without a tracking observer.                                   *)
C2_ResultsAccepted ==
    (CoreCall /\ Returned /\ result.ok) =>
        \A i \in DOMAIN result.files :
            /\ AllAccept(result.files[i])
            /\ should_process_file(cfg, result.files[i])

C2_Witness ==
    /\ ParallelCall /\ Returned /\ result.ok /\ HasTracking
    /\ Len(cfg.filters) = 2 /\ cfg.follow_links
    /\ result.files # <<>>
    /\ Len(result.files) < Cardinality(RegularFilesBelowRoot)

----------------------------------------------------------------------------
(* C3: every regular file under the root that all predicates accept, that  *)
(* is reachable under the traversal policy and lies within max_depth is in *)
(* the list returned by FileFinder::find.                                  *)
C3_Complete ==
    (CoreCall /\ ValidRoot /\ Returned) =>
        /\ result.ok
        /\ CoreExpected(cfg.max_depth) \subseteq Range(result.files)

----------------------------------------------------------------------------
(* C4: the list returned by find never contains the same file twice, even  *)
(* when follow_links is enabled and a file is reachable both directly and  *)
(* through a symbolic link.                                                *)
C4_NoDuplicates ==
    (CoreCall /\ Returned /\ result.ok) =>
        \A i, j \in DOMAIN result.files :
            i # j => RealPath(result.files[i]) # RealPath(result.files[j])

----------------------------------------------------------------------------
(* C5: during one search no directory, identified by its canonical path,   *)
(* is entered more than once.                                              *)
C5_NoReentry ==
    \A i, j \in DOMAIN notified :
        (i # j /\ notified[i].k = "dir" /\ notified[j].k = "dir") =>
            RealPath(notified[i].p) # RealPath(notified[j].p)

----------------------------------------------------------------------------
(* C6: with max_depth = Some(d) the root is depth 0, the files of every    *)
(* directory at depth <= d are considered and no directory at depth > d is *)
(* scanned; max_depth = 0 yields exactly the matching files directly       *)
(* inside the root.                                                        *)
C6_DepthLimit ==
    (CoreCall /\ ValidRoot /\ Returned /\ cfg.max_depth # None
        /\ ~cfg.follow_links) =>
        /\ result.ok
        /\ Range(result.files) = CoreExpected(cfg.max_depth)

----------------------------------------------------------------------------
(* C7: when follow_links / follow_symlinks is false, every notified or     *)
(* returned path was reached through real directories and is itself a      *)
(* real directory (directory notification) or a regular, non-symlink file. *)
ReachedWithoutLinks(p, kind) ==
    /\ p \in DOMAIN FS
    /\ FS[p].kind = kind
    /\ \A k \in 1..(Len(p) - 1) : FS[SubSeq(p, 1, k)].kind = "dir"

C7_NoLinkFollowed ==
    (cfg.engine \in {"core", "standard"} /\ ~FollowLinks) =>
        /\ \A i \in DOMAIN notified :
              ReachedWithoutLinks(notified[i].p,
                                  IF notified[i].k = "dir" THEN "dir" ELSE "file")
        /\ \A i \in DOMAIN result.files :
              ReachedWithoutLinks(result.files[i], "file")

C7_Witness ==
    /\ CoreCall /\ ~cfg.follow_links /\ Returned /\ result.ok
    /\ DirEv(<<"r", "sub", "deep">>) \in Range(notified)
    /\ <<"r", "sub", "deep", "e.rs">> \in Range(result.files)

----------------------------------------------------------------------------
(* C8: FileFinder::find in parallel mode always returns, and when join has *)
(* returned no worker thread of the pool is still running.                 *)
AllWorkersExited == \A w \in DOMAIN wpc : wpc[w] = "exited"

C8_JoinTerminates ==
    /\ [](JoinReturned => AllWorkersExited)
    /\ (ParallelCall ~> Returned)

C8_Witness ==
    /\ ParallelCall /\ Returned /\ AllWorkersExited
    /\ cfg.num_threads = MaxThreads
    /\ handled # <<>>

----------------------------------------------------------------------------
(* C9: FileFinder::find on a root that does not exist or is not a          *)
(* directory returns an InvalidPath error; no observer is notified and no  *)
(* worker pool is created.                                                 *)
C9_InvalidRoot ==
    (CoreCall /\ (~Exists(cfg.root) \/ ~IsDir(cfg.root))) =>
        /\ notified = <<>>
        /\ ~pool
        /\ \A i \in DOMAIN obs : obs[i] = NewObserver
        /\ pc \in {"call", "done"}
        /\ Returned => result = Err("InvalidPath")

C9_Witness ==
    /\ CoreCall /\ Returned /\ Exists(cfg.root) /\ ~IsDir(cfg.root)
    /\ cfg.num_threads >= 2
    /\ result = Err("InvalidPath")

----------------------------------------------------------------------------
(* C10: if one subdirectory of the tree cannot be read, the search still   *)
(* returns Ok and every matching file of the readable directories is in    *)
(* the results.                                                            *)
HasUnreadableSubdir ==
    \E d \in DOMAIN FS :
        /\ IsPrefix(cfg.root, d) /\ Len(d) > Len(cfg.root)
        /\ FS[d].kind = "dir" /\ ~FS[d].readable

EngineExpected ==
    IF UsesFinder THEN CoreExpected(None)
    ELSE IF cfg.engine \in {"standard", "command"}
    THEN {f \in RegularFilesBelowRoot : match_file(cfg, f)}
    ELSE {f \in RegularFilesBelowRoot : matches(cfg, f)}

UnlimitedWalk ==
    IF cfg.engine = "core" THEN cfg.max_depth = None
    ELSE IF cfg.engine = "standard" THEN cfg.recursive
    ELSE TRUE

C10_UnreadableTolerated ==
    (ValidRoot /\ HasUnreadableSubdir /\ UnlimitedWalk /\ Returned) =>
        /\ result.ok
        /\ EngineExpected \subseteq Range(result.files)

----------------------------------------------------------------------------
(* C11: two searches over the same tree with the same configuration return *)
(* the same set of paths whatever the scheduling of the worker threads:    *)
(* the set find returns is the one of the search in which the root item is *)
(* handled before the pool is stopped.                                     *)
ScheduleFreeResult ==
    IF find_tracking_observer(cfg) # 0
    THEN FilePaths(RootResult[cfg].ev)
    ELSE collect_files_direct(cfg, cfg.root, cfg.max_depth, 0)

C11_Deterministic ==
    (CoreCall /\ ValidRoot /\ Returned /\ result.ok) =>
        Range(result.files) = Range(ScheduleFreeResult)

----------------------------------------------------------------------------
(* C13: a directory for which the registered predicates return Prune is    *)
(* not descended into: no directory notification is issued for it or for a *)
(* descendant, and no file beneath it is in the results.                   *)
PrunedDirs ==
    {d \in DOMAIN FS :
        /\ FS[d].kind = "dir"
        /\ IsPrefix(cfg.root, d) /\ Len(d) > Len(cfg.root)
        /\ apply_all(cfg, d) = Prune}

C13_PruneNotDescended ==
    CoreCall =>
        \A d \in PrunedDirs :
            /\ \A i \in DOMAIN notified : ~IsPrefix(d, Canon(notified[i].p))
            /\ \A i \in DOMAIN result.files :
                  ~IsPrefix(d, Canon(result.files[i]))

----------------------------------------------------------------------------
(* C15: after find has returned, files_count() of the tracking observer    *)
(* find read its results from equals the length of the returned list.      *)
C15_CountEqualsLength ==
    (CoreCall /\ Returned /\ result.ok /\ HasTracking) =>
        obs[find_tracking_observer(cfg)].files_count = Len(result.files)

C15_Witness ==
    /\ ParallelCall /\ Returned /\ result.ok /\ HasTracking
    /\ Len(result.files) >= 2
    /\ obs[find_tracking_observer(cfg)].files_count = Len(result.files)

----------------------------------------------------------------------------
(* C16: a search over an empty root directory returns an empty list,       *)
(* issues no file notification and exactly one directory notification,     *)
(* the one for the root, in single-threaded and in parallel mode.          *)
C16_EmptyRoot ==
    (CoreCall /\ cfg.root = EmptyRoot /\ Returned) =>
        /\ result = Ok(<<>>)
        /\ notified = <<DirEv(cfg.root)>>

----------------------------------------------------------------------------
(* C17: with recursive = false a search over a FileSearchConfig returns    *)
(* exactly the matching files directly inside the root, with recursive =   *)
(* true the matching files at every depth; for search_directory and for    *)
(* SearchCommand.                                                          *)
ConfigMatches ==
    IF UsesFinder THEN CoreExpected(None)
    ELSE {f \in RegularFilesBelowRoot : match_file(cfg, f)}

DirectlyInRoot(files) == {f \in files : Len(f) = Len(cfg.root) + 1}

C17_RecursiveFlag ==
    (cfg.engine \in {"standard", "command"} /\ ValidRoot /\ ~FollowLinks
        /\ Returned) =>
        /\ result.ok
        /\ Range(result.files) = IF cfg.recursive THEN ConfigMatches
                                 ELSE DirectlyInRoot(ConfigMatches)

----------------------------------------------------------------------------
(* C12: FilterRegistry::apply_all returns the result of the first          *)
(* predicate, in the order of registration, that is not Accept, and Accept *)
(* if there is none.                                                       *)
UnitDone(op) == unit.op = op /\ unit.done

FirstNonAccept(rs) ==
    IF \A i \in DOMAIN rs : rs[i] = Accept THEN Accept
    ELSE rs[CHOOSE i \in DOMAIN rs :
                rs[i] # Accept /\ \A j \in 1..(i - 1) : rs[j] = Accept]

ResultsOf(fs, path) == [i \in DOMAIN fs |-> Filter(fs[i], path)]

C12_RegistrationOrder ==
    UnitDone("apply_all") =>
        unit.out = FirstNonAccept(ResultsOf(unit.arg.registered, unit.arg.path))

----------------------------------------------------------------------------
(* C14: CompositeFilter with And returns the result of its first child     *)
(* that is not Accept (Accept if all accept); with Or it returns Accept if *)
(* any child accepts, otherwise Prune if any child prunes, otherwise       *)
(* Reject.  As stated, for every list of children:                         *)
CompositeExpected(operation, rs) ==
    IF operation = "And" THEN FirstNonAccept(rs)
    ELSE IF Accept \in Range(rs) THEN Accept
    ELSE IF Prune \in Range(rs) THEN Prune
    ELSE Reject

C14_CompositeAnyList ==
    UnitDone("composite") =>
        unit.out = CompositeExpected(unit.arg.operation,
                       ResultsOf(unit.arg.children, unit.arg.path))

(* C14, amended: the same for every non-empty list of children; a          *)
(* composite without children returns Accept under And and under Or.       *)
C14_Composite ==
    UnitDone("composite") =>
        unit.out = IF unit.arg.children = <<>> THEN Accept
                   ELSE CompositeExpected(unit.arg.operation,
                            ResultsOf(unit.arg.children, unit.arg.path))

C14_Witness ==
    /\ UnitDone("composite")
    /\ unit.arg.operation = "Or"
    /\ unit.arg.children = <<"prunes", "rejects", "extension">>
    /\ unit.arg.path = <<"r", "a.rs">>
    /\ unit.out = Accept

----------------------------------------------------------------------------
(* C20: ExtensionFilter built with the wildcard "*" returns Accept for     *)
(* every regular file, with or without an extension in its name.           *)
C20_WildcardAcceptsAll ==
    (UnitDone("extension") /\ unit.arg.extension = "*"
        /\ IsFile(unit.arg.path)) =>
        unit.out = Accept

----------------------------------------------------------------------------
(* C18: grep output over the list of files: in files-with-matches mode     *)
(* each path that contains a match is printed exactly once; in per-line    *)
(* mode the header of such a file is printed once and is followed at once  *)
(* by all the matching lines of that file.                                 *)
Occurrences(lines, l) == Cardinality({i \in DOMAIN lines : lines[i] = l})

FilesWithMatches ==
    {f \in Range(unit.out.files) : search_file(unit.arg, f).matches # <<>>}

C18_GrepOutput ==
    (UnitDone("grep") /\ unit.out.ok) =>
        \A f \in FilesWithMatches :
            LET ms == MatchLines(search_file(unit.arg, f).matches,
                                 unit.arg.line_number)
                lines == unit.out.lines
            IN IF unit.arg.files_with_matches
               THEN Occurrences(lines, PathLine(f)) = 1
               ELSE /\ Occurrences(lines, HeaderLine(f)) = 1
                    /\ \A i \in DOMAIN lines :
                          lines[i] = HeaderLine(f) =>
                              /\ i + Len(ms) <= Len(lines)
                              /\ SubSeq(lines, i + 1, i + Len(ms)) = ms

----------------------------------------------------------------------------
(* C19: an invalid argument (workers = 0, a size string that does not      *)
(* parse, a date string that does not parse) makes the processing of the   *)
(* arguments fail; no configuration is produced for a search to run with.  *)
InvalidSize(s) == s # None /\ ~parse_size(s[1]).ok
InvalidDate(d) == d # None /\ ~date_parses(d[1])

InvalidArgs(args) ==
    \/ args.workers = Some(0)
    \/ InvalidSize(args.min_size) \/ InvalidSize(args.max_size)
    \/ InvalidDate(args.newer_than) \/ InvalidDate(args.older_than)

C19_InvalidArgsFatal ==
    (UnitDone("args") /\ InvalidArgs(unit.arg)) => ~unit.out.ok

----------------------------------------------------------------------------
(* C21: SizeFilter returns Accept for every directory whatever its bounds, *)
(* and for a regular file it returns Accept exactly when                   *)
(* min <= size <= max, an absent bound being no bound.                     *)
InBounds(n, min_size, max_size) ==
    /\ (min_size # None => min_size[1] <= n)
    /\ (max_size # None => n <= max_size[1])

C21_SizeFilter ==
    UnitDone("size") =>
        /\ IsDir(unit.arg.path) => unit.out = Accept
        /\ IsFile(unit.arg.path) =>
              (unit.out = Accept <=>
                  InBounds(SizeOf(unit.arg.path), unit.arg.min_size,
                           unit.arg.max_size))

----------------------------------------------------------------------------
(* C22: once the stopped flag is set, submit_directory and submit_file     *)
(* queue nothing and return false, both channels are as they were; and     *)
(* Drop sets the flag.                                                     *)
SubmitCalled ==
    /\ unit'.out.calls = unit.out.calls + 1
    /\ unit'.out.last.call \in {"submit_directory", "submit_file"}

DropCalled == unit'.out.last.call = "drop" /\ unit.out.last.call # "drop"

C22_StoppedSubmit ==
    [][/\ (SubmitCalled /\ stopped) =>
             (dir_q' = dir_q /\ file_q' = file_q /\ ~unit'.out.last.ret)
       /\ DropCalled => stopped']_vars

C22_Witness ==
    /\ pc = "drop_reap" /\ stopped /\ ~Disconnected
    /\ unit.out.last = [call |-> "submit_directory", ret |-> FALSE]
    /\ unit.arg # <<>>

----------------------------------------------------------------------------
(* C23: a WorkerPool dropped without complete() or join() having been      *)
(* called: every worker thread eventually exits, whatever the two channels *)
(* hold at the time of the drop.                                           *)
DroppedUnfinished == unit.out.last.call = "drop" /\ unit.out.completes = 0

C23_DropTerminates == DroppedUnfinished ~> Disconnected

C23_Witness ==
    /\ pc = "dropped" /\ unit.out.completes = 0 /\ Disconnected
    /\ cfg.num_threads = MaxThreads
    /\ \E i \in DOMAIN dir_q : dir_q[i].k = "Directory"
    /\ \E i \in DOMAIN file_q : file_q[i].k = "File"

----------------------------------------------------------------------------
(* C24: every Directory item submitted to the pool is eventually passed to *)
(* the directory handler or discarded because the pool was cancelled; and  *)
(* after a clean completion (complete() called, every worker exited, no    *)
(* cancellation) neither channel holds a Directory or a File item.         *)
DirectoryQueued == \E i \in DOMAIN dir_q : dir_q[i].k = "Directory"

CleanCompletion == unit.out.completes > 0 /\ ~stopped /\ Disconnected

Drained ==
    /\ \A i \in DOMAIN dir_q : dir_q[i] = Done
    /\ \A i \in DOMAIN file_q : file_q[i] = Done

C24_ItemsProcessed ==
    /\ DirectoryQueued ~> (~DirectoryQueued \/ stopped)
    /\ [](CleanCompletion => Drained)

----------------------------------------------------------------------------
(* C25: a worker never drops a Directory or File item it has received: it  *)
(* passes it to the handler of its kind, or, if it came from the channel   *)
(* of the other kind, sends it on the channel of its kind.                 *)
(* submit_directory sends only Directory items on the directory channel    *)
(* and submit_file only File items on the file channel, so every item a    *)
(* worker receives here is of the kind of its channel.                     *)
ItemKept(w) ==
    (/\ wpc[w] \in {"handle_dir", "handle_file"}
     /\ wpc'[w] # wpc[w]
     /\ wmsg[w].k # "Done") =>
        IF (wpc[w] = "handle_dir") = (wmsg[w].k = "Directory")
        THEN handled' = Append(handled, wmsg[w])
        ELSE IF wmsg[w].k = "File"
        THEN file_q' = Append(file_q, wmsg[w])
        ELSE dir_q' = Append(dir_q, wmsg[w])

C25_NeverDropped == [][\A w \in Workers : ItemKept(w)]_vars

C25_Witness ==
    /\ stopped
    /\ \E i \in DOMAIN handled : handled[i].k = "Directory"
    /\ \E i \in DOMAIN handled : handled[i].k = "File"

----------------------------------------------------------------------------
(* C26: a call of complete() on a pool of N workers puts N Done tokens on  *)
(* the directory channel and N Done tokens on the file channel.  A token a *)
(* worker has received is sent on before the worker exits, so the tokens   *)
(* of a channel are those queued and those held by a worker.               *)
DoneTokens(q, at) ==
    Cardinality({i \in DOMAIN q : q[i] = Done})
    + Cardinality({w \in Workers : wpc[w] = at /\ wmsg[w] = Done})

C26_DonePerWorker ==
    (pc = "submit" /\ unit.out.completes = 1) =>
        /\ DoneTokens(dir_q, "handle_dir") = cfg.num_threads
        /\ DoneTokens(file_q, "handle_file") = cfg.num_threads

----------------------------------------------------------------------------
(* C27: after complete() has returned, the stopped flag not set, every     *)
(* worker eventually exits, and it exits on a Done token it received, of   *)
(* which it sends exactly one on the channel it came from.                 *)
DoneForwarded(w) ==
    /\ (wmsg[w] = Done /\ wpc'[w] # wpc[w]) =>
          /\ wpc'[w] = "exited"
          /\ IF wpc[w] = "handle_dir"
             THEN dir_q' = Append(dir_q, Done) /\ file_q' = file_q
             ELSE file_q' = Append(file_q, Done) /\ dir_q' = dir_q
    /\ (wpc[w] # "exited" /\ wpc'[w] = "exited" /\ ~stopped) =>
          wmsg[w] = Done

C27_DoneForwarding ==
    /\ (pc = "submit" /\ unit.out.completes > 0) ~> (stopped \/ Disconnected)
    /\ [][\A w \in Workers : DoneForwarded(w)]_vars

C27_Witness ==
    /\ pc = "submit" /\ unit.out.completes > 0 /\ ~stopped /\ Disconnected
    /\ cfg.num_threads = MaxThreads
    /\ handled # <<>>

----------------------------------------------------------------------------
(* C28: both channels are bounded: neither ever holds more items than its  *)
(* capacity, a submit to a full channel adding nothing until a worker has  *)
(* taken an item.                                                          *)
C28_Bounded ==
    Len(dir_q) <= ChannelCapacity /\ Len(file_q) <= ChannelCapacity

----------------------------------------------------------------------------
(* C29: each Directory or File item submitted to the pool is consumed      *)
(* exactly once: no item is handled more often than it was submitted, and  *)
(* once the workers are gone every item submitted has been handled (the    *)
(* items of a cancelled pool apart, which the pool discards).              *)
Count(seq, m) == Cardinality({i \in DOMAIN seq : seq[i] = m})

C29_ExactlyOnce ==
    \A m \in Range(unit.arg) :
        /\ Count(handled, m) <= Count(unit.arg, m)
        /\ (Disconnected /\ ~stopped) =>
              Count(handled, m) = Count(unit.arg, m)

----------------------------------------------------------------------------
(* C30: in parallel mode the directory handler submits what it finds to    *)
(* the pool: every directory the search processes has been handed to the   *)
(* directory handler as a Directory work item of its own, and every file   *)
(* reported has been handed to the file handler as a File work item.       *)
C30_ChildrenSubmitted ==
    ParallelCall =>
        \A i \in DOMAIN notified :
            IF notified[i].k = "dir"
            THEN Directory(notified[i].p) \in Range(handled)
            ELSE FileMsg(notified[i].p) \in Range(handled)

----------------------------------------------------------------------------
(* C31: one notify_file_found or notify_directory_processed call invokes   *)
(* every registered observer exactly once, in the order of registration,   *)
(* and an observer that fails (a poisoned lock) does not keep the          *)
(* observers after it from being notified.                                 *)
Notified(kind, o, ev) ==
    IF kind = "Null" THEN o = NewObserver
    ELSE IF ev.k = "dir" THEN o.dirs_count = 1 /\ o.files_count = 0
    ELSE /\ o.files_count = 1 /\ o.dirs_count = 0
         /\ kind = "Tracking" => o.found_files = <<ev.p>>

C31_NotifyEveryObserver ==
    UnitDone("notify") =>
        /\ unit.out.log = [i \in DOMAIN unit.arg.registered |-> i]
        /\ \A i \in DOMAIN unit.arg.registered :
              Notified(unit.arg.registered[i], unit.out.obs[i], unit.arg.ev)

C31_Witness ==
    /\ UnitDone("notify")
    /\ unit.arg.registered = <<"Silent", "Poisoned", "Tracking">>
    /\ unit.arg.ev.k = "file"
    /\ unit.out.obs[3].found_files = <<unit.arg.ev.p>>

----------------------------------------------------------------------------
(* C32: every file-found notification of FileFinder comes after the        *)
(* directory notification of the directory that contains the file, also    *)
(* for a file reported through a followed symbolic link.                   *)
C32_DirectoryBeforeFile ==
    UsesFinder =>
        \A i \in DOMAIN notified :
            notified[i].k = "file" =>
                \E j \in 1..(i - 1) : notified[j] = DirEv(Front(notified[i].p))

----------------------------------------------------------------------------
(* C33: once wait_and_terminate of the OqabFileFinder pool has returned,   *)
(* every worker has left its loop and every directory queued before the    *)
(* call has been processed, so that the list find then builds is complete. *)
C33_WorkersCompleted ==
    (cfg.engine = "oqab" /\ pc \in {"collect", "done"}
        /\ result.err # "Failed to queue directory for processing") =>
        /\ \A w \in DOMAIN wpc : wpc[w] = "exited"
        /\ \A i \in DOMAIN dir_q : dir_q[i].k # "ProcessDirectory"

(* C39: every file a worker of OqabFileFinder matched and reported with    *)
(* observer.file_found is in the list find returns.                        *)
C39_FoundFilesReturned ==
    (cfg.engine = "oqab" /\ pc = "done" /\ result.ok) =>
        \A i \in DOMAIN notified :
            notified[i].k = "file" => notified[i].p \in Range(result.files)

----------------------------------------------------------------------------
(* C34: FileFinder::find returns the same set of paths with and without a  *)
(* TrackingObserver in the registry: what it reads from the observer after *)
(* the traversal is what collect_files_direct collects for the same root,  *)
(* max_depth and follow_links.                                             *)
C34_SameWithAndWithoutTracking ==
    (UsesFinder /\ pc = "done" /\ result.ok) =>
        Range(result.files)
            = Range(collect_files_direct(cfg, cfg.root, cfg.max_depth, 0))

----------------------------------------------------------------------------
(* C35: the result of a second find on the same FileFinder holds only      *)
(* files that the second call discovered, all of them under the root of    *)
(* the second call; nothing is carried over from the first call.           *)
C35_OnlyThisCall ==
    (unit.op = "repeat" /\ unit.done /\ pc = "done" /\ result.ok) =>
        \A i \in DOMAIN result.files :
            /\ \E j \in (unit.out.mark + 1)..Len(notified) :
                   notified[j] = FileEv(result.files[i])
            /\ Len(result.files[i]) > Len(cfg.root)
            /\ SubSeq(result.files[i], 1, Len(cfg.root)) = cfg.root

----------------------------------------------------------------------------
(* C36: every call of TrackingObserver::merge_from returns, whatever other *)
(* merge_from and file_found calls run at the same time and also when the  *)
(* observer is merged from itself.                                         *)
C36_MergeFromReturns ==
    \A t \in 1..MaxThreads :
        (unit.op = "tracking" /\ wmsg[t].op = "merge_from")
            ~> (wmsg[t].op = "none")

(* C37: whenever no call is in progress on any TrackingObserver, the       *)
(* files_count of every observer is the length of its found_files.         *)
C37_CountIsLength ==
    (unit.op = "tracking" /\ \A t \in DOMAIN wpc : wpc[t] = "idle") =>
        \A o \in DOMAIN obs :
            obs[o].files_count = Len(obs[o].found_files)

----------------------------------------------------------------------------
(* C38: ConfigManager::initialize takes effect at most once: of the        *)
(* initialize calls made, concurrent or not, exactly one assigns the       *)
(* configuration, and a call that begins once is_initialized() is true     *)
(* never reaches the assignment.                                           *)
C38_InitializeOnce ==
    unit.op = "singleton" =>
        /\ unit.out.writes <= 1
        /\ unit.out.initialized => unit.out.writes = 1
        /\ \A t \in DOMAIN wpc : wmsg[t].late => wpc[t] = "idle"

----------------------------------------------------------------------------
(* C40: GrepCommand scans every file of its list: a file that cannot be    *)
(* opened, for lack of permission or for any other I/O error, does not     *)
(* keep the files after it from being scanned and their matches from being *)
(* printed.                                                                *)
C40_UnopenableFileSkipped ==
    UnitDone("grep") =>
        \A i \in DOMAIN unit.out.files :
            LET f == unit.out.files[i]
                r == search_file(unit.arg, f)
            IN (r.ok /\ r.matches # <<>>) =>
                   IF unit.arg.files_with_matches
                   THEN PathLine(f) \in Range(unit.out.lines)
                   ELSE /\ HeaderLine(f) \in Range(unit.out.lines)
                        /\ Range(MatchLines(r.matches, unit.arg.line_number))
                               \subseteq Range(unit.out.lines)

====
